---- MODULE Spec2Model ----
(***************************************************************************)
(* Astralite optimiser: the production calculator (production.py), the     *)
(* portfolio optimiser (optimizer.py) and the request layer (app.py) as a  *)
(* state machine.                                                          *)
(*                                                                         *)
(* Numbers.  Python floats are modelled as exact rationals <<n, d>> in     *)
(* lowest terms with d > 0, extended by +infinity <<1, 0>> (math.inf) and  *)
(* NaN <<0, 0>> (inf * 0).  Rounding error is not modelled.                *)
(***************************************************************************)
EXTENDS Integers, Sequences, FiniteSets, TLC

\* ------------------------------------------------------------------------
\* Bounds of the model
\* ------------------------------------------------------------------------
\* largest quantity of one material in a furniture recipe
MaxQty == 2
\* largest facility capacity passed to optimise_portfolio
MaxCapacity == 3
\* quantities per item, in half units, of the plans a result is compared with
GridUnits == 4
\* a builder is never started for an item that was already built this often
MaxBuilds == 2
\* longest reward table and longest total-level table a repository is built from
MaxTiers == 3
\* highest ability level a reward query asks for
MaxLevel == 4
\* highest total level a weekly bonus query asks for
MaxTotalLevel == 11
\* most requests one loader sends to its session
MaxRequests == 3

\* ------------------------------------------------------------------------
\* Program constants
\* ------------------------------------------------------------------------
PLANT_FACILITY == "plant_plot"
FISH_FACILITY == "fish_pond"
CRAFT_FACILITY == "crafting"
Facilities == {PLANT_FACILITY, FISH_FACILITY, CRAFT_FACILITY}

\* ABILITY_CATEGORY.get(ability_id, "other")
ABILITY_CATEGORY(ability_id) ==
  CASE ability_id = 22 -> "furniture"
    [] ability_id = 34 -> "plant"
    [] ability_id = 45 -> "meteor"
    [] ability_id = 47 -> "fish"
    [] ability_id = 48 -> "animal"
    [] OTHER -> "other"

\* Python's None
None == [is_none |-> TRUE]

\* ------------------------------------------------------------------------
\* Float arithmetic, as exact extended rationals
\* ------------------------------------------------------------------------
RECURSIVE GCD(_, _)
GCD(a, b) == IF b = 0 THEN a ELSE GCD(b, a % b)

Abs(n) == IF n < 0 THEN -n ELSE n

\* the float n / d, d > 0
Norm(n, d) == LET g == GCD(Abs(n), d) IN <<n \div g, d \div g>>

R(n) == <<n, 1>>
RInf == <<1, 0>>
RNaN == <<0, 0>>
RZero == <<0, 1>>

IsNaN(x) == x = RNaN
IsInf(x) == x = RInf
\* math.isfinite
IsFinite(x) == x[2] # 0

\* x + y on floats that are never negative infinity
RAdd(x, y) ==
  IF IsNaN(x) \/ IsNaN(y) THEN RNaN
  ELSE IF IsInf(x) \/ IsInf(y) THEN RInf
  ELSE Norm(x[1] * y[2] + y[1] * x[2], x[2] * y[2])

\* x * y on floats; inf * 0 is nan
RMul(x, y) ==
  IF IsNaN(x) \/ IsNaN(y) THEN RNaN
  ELSE IF IsInf(x) THEN (IF y[1] = 0 THEN RNaN ELSE RInf)
  ELSE IF IsInf(y) THEN (IF x[1] = 0 THEN RNaN ELSE RInf)
  ELSE Norm(x[1] * y[1], x[2] * y[2])

\* x / y for finite x and finite y > 0
RDiv(x, y) == Norm(x[1] * y[2], x[2] * y[1])

\* x <= y on floats (every comparison with nan is False)
RLe(x, y) ==
  IF IsNaN(x) \/ IsNaN(y) THEN FALSE
  ELSE IF IsInf(y) THEN TRUE
  ELSE IF IsInf(x) THEN FALSE
  ELSE x[1] * y[2] <= y[1] * x[2]

\* x > y on floats
RGt(x, y) == ~IsNaN(x) /\ ~IsNaN(y) /\ ~RLe(x, y)

\* dict.get(k, default) and d[k] = v on dicts modelled as functions
DictGet(d, k, default) == IF k \in DOMAIN d THEN d[k] ELSE default
DictSet(d, k, v) == [x \in (DOMAIN d) \cup {k} |-> IF x = k THEN v ELSE d[x]]
EmptyDict == [x \in {} |-> RZero]

RECURSIVE SeqSum(_)
SeqSum(s) == IF s = <<>> THEN 0 ELSE Head(s) + SeqSum(Tail(s))

Max(a, b) == IF a >= b THEN a ELSE b
Min(a, b) == IF a <= b THEN a ELSE b


\* ------------------------------------------------------------------------
\* State
\* ------------------------------------------------------------------------
VARIABLES
  datasets,           \* RemoteDataLoader._cache: the raw tables, by dataset
  sale_items,         \* ProductionCalculator.sale_items: item id -> SaleItem
  sale_order,         \* iteration order of the sale_items dict
  plant_growth,       \* ProductionCalculator.plant_growth: item id -> PlantGrowth
  fish_growth,        \* ProductionCalculator.fish_growth: item id -> FishGrowth
  furniture_recipes,  \* ProductionCalculator.furniture_recipes
  furniture_time,     \* ProductionCalculator._furniture_time
  profile_cache,      \* ProductionCalculator._profile_cache
  stack,              \* the in-progress set passed down by compute_profile
  frames,             \* activations of _build_furniture_profile, innermost last
  call,               \* the top-level compute_profile call: item, done, result
  loop,               \* supported_profiles: position in its for loop
  build_count,        \* item id -> number of times a _build_* ran for it
  request,            \* the arguments of the last optimise_portfolio call
  result,             \* the OptimizationResult it returned
  solver_runs,        \* how often that call ran problem.solve
  rewards_by_ability, \* ProgressionRepository._rewards_by_ability
  total_level_bonuses, \* ProgressionRepository._total_level_bonuses
  base_weekly_limit,  \* app.BASE_WEEKLY_LIMIT
  modelled_profiles,  \* app.MODELLED_PROFILES
  startup,            \* app.py: "import" while the module loads, then "serving"
  payload,            \* the OptimiseRequest of the last /api/optimise call
  response,           \* the OptimiseResponse it returned
  reward_data,        \* the reward table ProgressionRepository was built from
  total_level_data,   \* the total-level table it was built from
  query,              \* the last call of a ProgressionRepository method
  urls,               \* RemoteDataLoader.urls
  cache,              \* RemoteDataLoader._cache
  sent,               \* the urls requested from the session, oldest first
  fetch               \* the last call of fetch_json and how it ended

calc_vars == <<datasets, sale_items, sale_order, plant_growth, fish_growth,
               furniture_recipes, furniture_time, profile_cache, stack, frames,
               call, loop, build_count>>
opt_vars == <<request, result, solver_runs>>
app_vars == <<rewards_by_ability, total_level_bonuses, base_weekly_limit,
              modelled_profiles, startup, payload, response>>
prog_vars == <<reward_data, total_level_data, query>>
loader_vars == <<urls, cache, sent, fetch>>

\* ------------------------------------------------------------------------
\* Localisation (localization.py)
\* ------------------------------------------------------------------------
\* str.lower on the names that occur
Lower(name) ==
  CASE name = "Blinko Fish" -> "blinko fish"
    [] name = "BLINKO FISH" -> "blinko fish"
    [] name = "Golden Fragrant Cup" -> "golden fragrant cup"
    [] name = "Cozy Bed" -> "cozy bed"
    [] name = "Low Table" -> "low table"
    [] name = "Stardust Lamb" -> "stardust lamb"
    [] OTHER -> name

\* f"Item {item_id}"
ItemLabel(item_id) ==
  CASE item_id = 1 -> "Item 1"
    [] item_id = 2 -> "Item 2"
    [] item_id = 3 -> "Item 3"
    [] item_id = 4 -> "Item 4"
    [] item_id = 5 -> "Item 5"
    [] item_id = 6 -> "Item 6"
    [] OTHER -> "Item 9"

\* Localization.item_name
item_name(en, item_id) == DictGet(en.item_names, item_id, ItemLabel(item_id))

\* Localization.get(f"FISH_{fish_id}")
fish_name(en, fish_id) == DictGet(en.fish_names, fish_id, "")

\* ------------------------------------------------------------------------
\* Loading the datasets (ProductionCalculator.__init__)
\* ------------------------------------------------------------------------
\* sum of reward["num"] over the rewards whose item_id is 14
RECURSIVE SaleValue(_)
SaleValue(rewards) ==
  IF rewards = <<>> THEN 0
  ELSE (IF Head(rewards).item_id = 14 THEN Head(rewards).num ELSE 0)
       + SaleValue(Tail(rewards))

RECURSIVE LoadSaleItems(_, _, _)
LoadSaleItems(raw, en, acc) ==
  IF raw = <<>> THEN acc
  ELSE LET entry == Head(raw)
           sale == [item_id |-> entry.item_id,
                    ability_id |-> entry.ability_id,
                    ability_level |-> entry.ability_level,
                    sale_value |-> R(SaleValue(entry.rewards)),
                    name |-> item_name(en, entry.item_id),
                    category |-> ABILITY_CATEGORY(entry.ability_id)]
       IN LoadSaleItems(Tail(raw), en, DictSet(acc, entry.item_id, sale))

\* the order in which a dict filled from raw lists its keys
RECURSIVE KeyOrder(_, _)
KeyOrder(raw, acc) ==
  IF raw = <<>> THEN acc
  ELSE LET k == Head(raw).item_id
       IN KeyOrder(Tail(raw),
                   IF \E i \in 1..Len(acc) : acc[i] = k THEN acc ELSE Append(acc, k))

\* the first nutrient entry with consume_count 0 sets the default speed-up
RECURSIVE DefaultSpeedup(_)
DefaultSpeedup(nutrient_data) ==
  IF nutrient_data = <<>> THEN 0
  ELSE IF Head(nutrient_data).consume_count = 0 THEN Head(nutrient_data).speedup
  ELSE DefaultSpeedup(Tail(nutrient_data))

\* _parse_average on the numbers found in the text
parse_average(numbers, fallback) ==
  IF numbers = <<>> THEN fallback
  ELSE Norm(SeqSum(numbers), Len(numbers))

RECURSIVE LoadPlantGrowth(_, _, _)
LoadPlantGrowth(growth_data, default_speedup, acc) ==
  IF growth_data = <<>> THEN acc
  ELSE LET entry == Head(growth_data)
           growth_time_sec == SeqSum(entry.growth_stages)
           growth == [harvest_item_id |-> entry.harvest_item,
                      growth_time_sec |-> growth_time_sec,
                      accelerated_time_sec |-> Max(0, growth_time_sec - default_speedup),
                      average_yield |-> parse_average(entry.estimate_harvests, R(1))]
       IN LoadPlantGrowth(Tail(growth_data), default_speedup,
                          IF entry.harvest_item = 0 THEN acc
                          ELSE DictSet(acc, entry.harvest_item, growth))

RECURSIVE LoadFishByName(_, _, _, _)
LoadFishByName(growth_data, default_speedup, en, acc) ==
  IF growth_data = <<>> THEN acc
  ELSE LET entry == Head(growth_data)
           name == fish_name(en, entry.fish_id)
           growth == [fish_id |-> entry.fish_id,
                      growth_time_sec |-> entry.growth_time,
                      accelerated_time_sec |-> Max(0, entry.growth_time - default_speedup),
                      name |-> name,
                      yield_per_cycle |-> R(1)]
       IN LoadFishByName(Tail(growth_data), default_speedup, en,
                         IF name = "" THEN acc ELSE DictSet(acc, Lower(name), growth))

\* sale items of category fish, matched to growth data by lower-cased name
LoadFishGrowth(growth_data, default_speedup, en, sales) ==
  LET by_name == LoadFishByName(growth_data, default_speedup, en, [x \in {} |-> None])
      matched == {i \in DOMAIN sales :
                    sales[i].category = "fish" /\ Lower(sales[i].name) \in DOMAIN by_name}
  IN [i \in matched |-> by_name[Lower(sales[i].name)]]

RECURSIVE LoadFurnitureRecipes(_, _)
LoadFurnitureRecipes(raw, acc) ==
  IF raw = <<>> THEN acc
  ELSE LoadFurnitureRecipes(Tail(raw),
                            DictSet(acc, Head(raw).furniture_id, Head(raw).material_consume))

RECURSIVE LoadFurnitureTime(_, _)
LoadFurnitureTime(raw, acc) ==
  IF raw = <<>> THEN acc
  ELSE LoadFurnitureTime(Tail(raw), DictSet(acc, Head(raw).furniture_id, R(Head(raw).time)))

\* PlantGrowth.minutes_per_item, FishGrowth.minutes_per_item
cycle_minutes(growth) == Norm(growth.accelerated_time_sec, 60)

\* mutant: the cycle is not divided by the yield
plant_minutes_whole_cycle(growth) ==
  IF RLe(growth.average_yield, RZero) THEN RInf ELSE cycle_minutes(growth)

plant_minutes_per_item(growth) ==
  IF RLe(growth.average_yield, RZero) THEN RInf
  ELSE RDiv(cycle_minutes(growth), growth.average_yield)

fish_minutes_per_item(growth) ==
  IF RLe(growth.yield_per_cycle, RZero) THEN RInf
  ELSE RDiv(cycle_minutes(growth), growth.yield_per_cycle)


\* ------------------------------------------------------------------------
\* Profile builders (production.py, _build_*_profile)
\* ------------------------------------------------------------------------
\* f"Production data for {sale.category} items is not yet modelled."
NOTE_BASIC(category) ==
  CASE category = "meteor" -> "Production data for meteor items is not yet modelled."
    [] category = "animal" -> "Production data for animal items is not yet modelled."
    [] OTHER -> "Production data for other items is not yet modelled."
NOTE_PLANT == "No planting data available; timing estimates missing."
NOTE_FISH == "No fish growth data available; timing estimates missing."
NOTE_RECIPE == "Furniture recipe not found in extracted data."

Profile(oid, sale, facility_minutes, components, notes) ==
  [oid |-> oid,
   item_id |-> sale.item_id,
   name |-> sale.name,
   sale_value |-> sale.sale_value,
   ability_id |-> sale.ability_id,
   ability_level |-> sale.ability_level,
   category |-> sale.category,
   facility_minutes |-> facility_minutes,
   components |-> components,
   notes |-> notes]

build_basic_profile(sale, oid) ==
  Profile(oid, sale, EmptyDict, <<>>, <<NOTE_BASIC(sale.category)>>)

build_plant_profile(sale, oid) ==
  IF sale.item_id \in DOMAIN plant_growth
  THEN Profile(oid, sale,
               DictSet(EmptyDict, PLANT_FACILITY,
                       plant_minutes_per_item(plant_growth[sale.item_id])),
               <<>>, <<>>)
  ELSE Profile(oid, sale, EmptyDict, <<>>, <<NOTE_PLANT>>)

build_fish_profile(sale, oid) ==
  IF sale.item_id \in DOMAIN fish_growth
  THEN Profile(oid, sale,
               DictSet(EmptyDict, FISH_FACILITY,
                       fish_minutes_per_item(fish_growth[sale.item_id])),
               <<>>, <<>>)
  ELSE Profile(oid, sale, EmptyDict, <<>>, <<NOTE_FISH>>)

\* the builders that do not recurse
BuildLeaf(sale, oid) ==
  CASE sale.category = "plant" -> build_plant_profile(sale, oid)
    [] sale.category = "fish" -> build_fish_profile(sale, oid)
    [] OTHER -> build_basic_profile(sale, oid)

Materials(item_id) == DictGet(furniture_recipes, item_id, <<>>)

\* _build_furniture_profile up to its for loop
NewFrame(item_id) ==
  [item_id |-> item_id,
   idx |-> 1,
   facility_minutes |->
     DictSet(EmptyDict, CRAFT_FACILITY, DictGet(furniture_time, item_id, RZero)),
   components |-> <<>>,
   notes |-> IF Materials(item_id) = <<>> THEN <<NOTE_RECIPE>> ELSE <<>>]

\* mutant: the component's minutes are added once, whatever the quantity
AddComponentMinutesOnce(facility_minutes, component_minutes, quantity) ==
  [f \in (DOMAIN facility_minutes) \cup (DOMAIN component_minutes) |->
     IF f \in DOMAIN component_minutes
     THEN RAdd(DictGet(facility_minutes, f, RZero), component_minutes[f])
     ELSE facility_minutes[f]]

\* for facility, minutes in component_profile.facility_minutes.items(): ...
AddComponentMinutes(facility_minutes, component_minutes, quantity) ==
  [f \in (DOMAIN facility_minutes) \cup (DOMAIN component_minutes) |->
     IF f \in DOMAIN component_minutes
     THEN RAdd(DictGet(facility_minutes, f, RZero),
               RMul(component_minutes[f], R(quantity)))
     ELSE facility_minutes[f]]

\* one pass of the for loop of _build_furniture_profile, given what
\* _compute_profile returned for the requirement
TakeComponent(frame, requirement, component_profile) ==
  [frame EXCEPT
     !.idx = @ + 1,
     !.components = Append(@, [item_id |-> requirement.item_id,
                               name |-> item_name(datasets.en, requirement.item_id),
                               quantity |-> requirement.quantity,
                               profile |-> component_profile]),
     !.facility_minutes =
        IF component_profile = None THEN @
        ELSE AddComponentMinutes(@, component_profile.facility_minutes,
                                 requirement.quantity)]

\* the ProductionProfile that _build_furniture_profile returns
FrameProfile(frame, oid) ==
  Profile(oid, sale_items[frame.item_id], frame.facility_minutes,
          frame.components, frame.notes)

\* ------------------------------------------------------------------------
\* _compute_profile (production.py 248-268)
\* ------------------------------------------------------------------------
\* mutant: no test of the in-progress set
EnterKindNoCycleTest(item_id, in_progress) ==
  IF item_id \in DOMAIN profile_cache THEN "cached"
  ELSE IF item_id \notin DOMAIN sale_items THEN "unknown"
  ELSE IF sale_items[item_id].category = "furniture" THEN "furniture"
  ELSE "leaf"

\* which branch _compute_profile takes for item_id
EnterKind(item_id, in_progress) ==
  IF item_id \in DOMAIN profile_cache THEN "cached"
  ELSE IF item_id \in in_progress THEN "cycle"
  ELSE IF item_id \notin DOMAIN sale_items THEN "unknown"
  ELSE IF sale_items[item_id].category = "furniture" THEN "furniture"
  ELSE "leaf"

\* stack.add(item_id) and stack.remove(item_id)
StackAdd(in_progress, item_id) == in_progress \cup {item_id}
StackRemove(in_progress, item_id) == in_progress \ {item_id}

\* mutant: the profile is returned without being cached
CacheStoreSkipped(entries, item_id, profile) == entries

\* if profile: self._profile_cache[item_id] = profile
CacheStore(entries, item_id, profile) == DictSet(entries, item_id, profile)

\* the identity of the object the next builder run for item_id constructs:
\* two ProductionProfile objects are the same object iff their oid is equal
NewOid(item_id) == <<item_id, build_count[item_id] + 1>>

Bump(counts, item_id) == [counts EXCEPT ![item_id] = @ + 1]

NoCall == [item_id |-> 0, done |-> TRUE, result |-> None]

\* compute_profile(item_id): the call up to its return, or up to the first
\* material of a furniture recipe
TopCall(item_id) ==
  /\ frames = <<>>
  /\ call.done
  /\ LET kind == EnterKind(item_id, {})
     IN CASE kind = "cached" ->
               /\ call' = [item_id |-> item_id, done |-> TRUE,
                           result |-> profile_cache[item_id]]
               /\ stack' = {}
               /\ UNCHANGED <<profile_cache, frames, build_count>>
          [] kind = "unknown" ->
               /\ call' = [item_id |-> item_id, done |-> TRUE, result |-> None]
               /\ stack' = {}
               /\ UNCHANGED <<profile_cache, frames, build_count>>
          [] kind = "leaf" ->
               /\ build_count[item_id] < MaxBuilds
               /\ LET profile == BuildLeaf(sale_items[item_id], NewOid(item_id))
                  IN /\ profile_cache' = CacheStore(profile_cache, item_id, profile)
                     /\ call' = [item_id |-> item_id, done |-> TRUE, result |-> profile]
               /\ stack' = StackRemove(StackAdd({}, item_id), item_id)
               /\ build_count' = Bump(build_count, item_id)
               /\ UNCHANGED frames
          [] OTHER ->
               /\ build_count[item_id] < MaxBuilds
               /\ call' = [item_id |-> item_id, done |-> FALSE, result |-> None]
               /\ stack' = StackAdd({}, item_id)
               /\ frames' = <<NewFrame(item_id)>>
               /\ build_count' = Bump(build_count, item_id)
               /\ UNCHANGED profile_cache
  /\ UNCHANGED <<datasets, sale_items, sale_order, plant_growth, fish_growth,
                 furniture_recipes, furniture_time, opt_vars, app_vars, prog_vars, loader_vars>>

Top == frames[Len(frames)]
Below == SubSeq(frames, 1, Len(frames) - 1)

\* the innermost _build_furniture_profile resolves its next material
Resolve ==
  /\ frames # <<>>
  /\ Top.idx <= Len(Materials(Top.item_id))
  /\ LET requirement == Materials(Top.item_id)[Top.idx]
         item_id == requirement.item_id
         kind == EnterKind(item_id, stack)
     IN CASE kind = "cached" ->
               /\ frames' = Append(Below, TakeComponent(Top, requirement,
                                                        profile_cache[item_id]))
               /\ UNCHANGED <<profile_cache, stack, build_count>>
          [] kind \in {"cycle", "unknown"} ->
               /\ frames' = Append(Below, TakeComponent(Top, requirement, None))
               /\ UNCHANGED <<profile_cache, stack, build_count>>
          [] kind = "leaf" ->
               /\ build_count[item_id] < MaxBuilds
               /\ LET profile == BuildLeaf(sale_items[item_id], NewOid(item_id))
                  IN /\ profile_cache' = CacheStore(profile_cache, item_id, profile)
                     /\ frames' = Append(Below, TakeComponent(Top, requirement, profile))
               /\ stack' = StackRemove(StackAdd(stack, item_id), item_id)
               /\ build_count' = Bump(build_count, item_id)
          [] OTHER ->
               /\ build_count[item_id] < MaxBuilds
               /\ frames' = Append(frames, NewFrame(item_id))
               /\ stack' = StackAdd(stack, item_id)
               /\ build_count' = Bump(build_count, item_id)
               /\ UNCHANGED profile_cache
  /\ UNCHANGED <<datasets, sale_items, sale_order, plant_growth, fish_growth,
                 furniture_recipes, furniture_time, call, loop, opt_vars, app_vars, prog_vars, loader_vars>>

\* the innermost _build_furniture_profile is past its last material: it
\* returns, and _compute_profile unwinds to the caller
Return ==
  /\ frames # <<>>
  /\ Top.idx > Len(Materials(Top.item_id))
  /\ LET profile == FrameProfile(Top, <<Top.item_id, build_count[Top.item_id]>>)
     IN /\ profile_cache' = CacheStore(profile_cache, Top.item_id, profile)
        /\ IF Below = <<>>
           THEN /\ frames' = <<>>
                /\ call' = [call EXCEPT !.done = TRUE, !.result = profile]
           ELSE LET parent == Below[Len(Below)]
                    requirement == Materials(parent.item_id)[parent.idx]
                IN /\ frames' = Append(SubSeq(Below, 1, Len(Below) - 1),
                                       TakeComponent(parent, requirement, profile))
                   /\ UNCHANGED call
  /\ stack' = StackRemove(stack, Top.item_id)
  /\ UNCHANGED <<datasets, sale_items, sale_order, plant_growth, fish_growth,
                 furniture_recipes, furniture_time, loop, build_count, opt_vars, app_vars, prog_vars, loader_vars>>

\* a caller other than supported_profiles calls compute_profile(item_id)
ComputeProfile(item_id) ==
  /\ ~loop.active
  /\ TopCall(item_id)
  /\ UNCHANGED loop

\* ------------------------------------------------------------------------
\* supported_profiles (production.py 359-365)
\* ------------------------------------------------------------------------
IdleLoop == [active |-> FALSE, waiting |-> FALSE, rest |-> <<>>, profiles |-> <<>>]

SupportedProfilesStart ==
  /\ ~loop.active
  /\ frames = <<>>
  /\ call.done
  /\ loop' = [active |-> sale_order # <<>>, waiting |-> FALSE,
              rest |-> sale_order, profiles |-> <<>>]
  /\ UNCHANGED <<datasets, sale_items, sale_order, plant_growth, fish_growth,
                 furniture_recipes, furniture_time, profile_cache, stack, frames,
                 call, build_count, opt_vars, app_vars, prog_vars, loader_vars>>

SupportedProfilesCall ==
  /\ loop.active
  /\ ~loop.waiting
  /\ TopCall(Head(loop.rest))
  /\ loop' = [loop EXCEPT !.waiting = TRUE]

SupportedProfilesCollect ==
  /\ loop.active
  /\ loop.waiting
  /\ call.done
  /\ loop' = [active |-> Tail(loop.rest) # <<>>,
              waiting |-> FALSE,
              rest |-> Tail(loop.rest),
              profiles |-> IF call.result = None THEN loop.profiles
                           ELSE Append(loop.profiles, call.result)]
  /\ UNCHANGED <<datasets, sale_items, sale_order, plant_growth, fish_growth,
                 furniture_recipes, furniture_time, profile_cache, stack, frames,
                 call, build_count, opt_vars, app_vars, prog_vars, loader_vars>>


\* ------------------------------------------------------------------------
\* The linear programme solver (pulp with CBC, called at optimizer.py 80)
\*
\* The programme is  maximise objective . x  subject to  coef . x <= rhs  for
\* every row and x >= 0.  The solver is modelled exactly: it returns a vertex
\* of the feasible polytope at which the objective is greatest, any one of
\* them when several are.
\* ------------------------------------------------------------------------
RNeg(x) == <<-x[1], x[2]>>
RSub(x, y) == RAdd(x, RNeg(y))
\* x / y for finite x and finite y # 0
RQuot(x, y) ==
  IF y[1] > 0 THEN Norm(x[1] * y[2], x[2] * y[1])
  ELSE Norm(-(x[1] * y[2]), -(x[2] * y[1]))

RECURSIVE Dot(_, _)
Dot(coef, x) ==
  IF coef = <<>> THEN RZero
  ELSE RAdd(RMul(Head(coef), Head(x)), Dot(Tail(coef), Tail(x)))

\* the matrix M without its first row and its column j
Minor(M, j) ==
  [r \in 1..(Len(M) - 1) |->
     [c \in 1..(Len(M) - 1) |-> M[r + 1][IF c < j THEN c ELSE c + 1]]]

RECURSIVE Det(_)
RECURSIVE DetRow(_, _)
DetRow(M, j) ==
  IF j > Len(M) THEN RZero
  ELSE LET term == RMul(M[1][j], Det(Minor(M, j)))
       IN RAdd(IF j % 2 = 1 THEN term ELSE RNeg(term), DetRow(M, j + 1))
Det(M) == IF Len(M) = 0 THEN R(1) ELSE DetRow(M, 1)

\* the solution of M x = b, by Cramer's rule, for Det(M) # 0
SolveSystem(M, b) ==
  LET d == Det(M)
  IN [j \in 1..Len(M) |->
        RQuot(Det([r \in 1..Len(M) |->
                     [c \in 1..Len(M) |-> IF c = j THEN b[r] ELSE M[r][c]]]), d)]

RECURSIVE SetToSeq(_)
SetToSeq(S) ==
  IF S = {} THEN <<>>
  ELSE LET e == CHOOSE e \in S : TRUE IN <<e>> \o SetToSeq(S \ {e})

\* x >= 0, as rows -x[i] <= 0
NonNegRows(n) ==
  {[coef |-> [c \in 1..n |-> IF c = i THEN R(-1) ELSE RZero], rhs |-> RZero] :
     i \in 1..n}

Satisfies(x, rows) == \A row \in rows : RLe(Dot(row.coef, x), row.rhs)

\* the vertices of the feasible polytope: the feasible points at which n
\* linearly independent constraints are tight
Vertices(programme) ==
  LET n == Len(programme.objective)
      constraints == programme.rows \cup NonNegRows(n)
      tight == {T \in SUBSET constraints : Cardinality(T) = n}
      regular == {T \in tight :
                    Det([r \in 1..n |-> SetToSeq(T)[r].coef]) # RZero}
      points == {SolveSystem([r \in 1..n |-> SetToSeq(T)[r].coef],
                             [r \in 1..n |-> SetToSeq(T)[r].rhs]) : T \in regular}
  IN {x \in points : Satisfies(x, constraints)}

\* what problem.solve may leave in the variables when it ends Optimal
OptimalVertices(programme) ==
  LET vs == Vertices(programme)
  IN {x \in vs : \A y \in vs : RLe(Dot(programme.objective, y),
                                    Dot(programme.objective, x))}

\* pulp's LpStatus
LpStatus(status_code) ==
  CASE status_code = 1 -> "Optimal"
    [] status_code = 0 -> "Not Solved"
    [] status_code = -1 -> "Infeasible"
    [] status_code = -2 -> "Unbounded"
    [] OTHER -> "Undefined"
StatusCodes == {1, 0, -1, -2, -3}

\* ------------------------------------------------------------------------
\* optimise_portfolio (optimizer.py 32-117)
\* ------------------------------------------------------------------------
\* the 1e-6 below which a solved quantity counts as zero
Tolerance == <<1, 1000000>>
BonusMultiplier == <<6, 5>>

\* variables: the ids of the profiles with sale_value > 0
VariableIds(profiles) ==
  {profiles[k].item_id : k \in {j \in 1..Len(profiles) : RGt(profiles[j].sale_value, RZero)}}

item_multiplier(profile, bonus_set) ==
  IF profile.item_id \in bonus_set THEN BonusMultiplier ELSE R(1)

item_value(profile, bonus_set) ==
  RMul(profile.sale_value, item_multiplier(profile, bonus_set))

InVariables(profiles, p) == p.item_id \in VariableIds(profiles)

\* ordered_profiles
OrderedProfiles(profiles) ==
  LET keep == {k \in 1..Len(profiles) : InVariables(profiles, profiles[k])}
      RECURSIVE Pick(_)
      Pick(k) == IF k > Len(profiles) THEN <<>>
                 ELSE (IF k \in keep THEN <<profiles[k]>> ELSE <<>>) \o Pick(k + 1)
  IN Pick(1)

\* the objective on raw unit counts
ObjectiveRowOnUnits(ordered, bonus_set) ==
  [k \in 1..Len(ordered) |-> R(1)]

ObjectiveRow(ordered, bonus_set) ==
  [k \in 1..Len(ordered) |-> item_value(ordered[k], bonus_set)]

\* a constraint for every facility of capacities, whatever its capacity
EveryFacility(capacities) == DOMAIN capacities

\* the facilities whose capacity constraint is added to the problem
ConstrainedFacilities(capacities) ==
  {f \in DOMAIN capacities : RGt(capacities[f], RZero)}

FacilityRows(ordered, capacities) ==
  {[coef |-> [k \in 1..Len(ordered) |-> DictGet(ordered[k].facility_minutes, f, RZero)],
    rhs |-> capacities[f]] : f \in ConstrainedFacilities(capacities)}

\* the weekly cap on sale values alone, without the bonus multiplier
WeeklyRowOnSaleValue(ordered, weekly_limit, bonus_set) ==
  [coef |-> [k \in 1..Len(ordered) |-> ordered[k].sale_value], rhs |-> weekly_limit]

WeeklyRow(ordered, weekly_limit, bonus_set) ==
  [coef |-> ObjectiveRow(ordered, bonus_set), rhs |-> weekly_limit]

\* the LpProblem handed to the solver: one column per profile of ordered, whose
\* item ids are distinct (as those of a catalogue are) and whose minutes are
\* finite
Programme(ordered, weekly_limit, capacities, bonus_set) ==
  [objective |-> ObjectiveRow(ordered, bonus_set),
   rows |-> FacilityRows(ordered, capacities)
            \cup {WeeklyRow(ordered, weekly_limit, bonus_set)}]

\* the per-unit minutes of an item, not multiplied by its quantity
ItemUsagePerUnit(profile, value) ==
  [f \in {g \in DOMAIN profile.facility_minutes :
            RGt(profile.facility_minutes[g], RZero)} |->
     profile.facility_minutes[f]]

\* usage: the minutes of one item, for the facilities it needs
ItemUsage(profile, value) ==
  [f \in {g \in DOMAIN profile.facility_minutes :
            RGt(profile.facility_minutes[g], RZero)} |->
     RMul(profile.facility_minutes[f], value)]

OptimizedItem(profile, value, bonus_set) ==
  [item_id |-> profile.item_id,
   name |-> profile.name,
   units |-> value,
   astralite |-> RMul(item_value(profile, bonus_set), value),
   multiplier |-> item_multiplier(profile, bonus_set),
   facility_minutes |-> ItemUsage(profile, value),
   profile |-> profile]

\* an item for every variable, whatever its value
RECURSIVE PlanItemsEveryVariable(_, _, _)
PlanItemsEveryVariable(ordered, x, bonus_set) ==
  IF ordered = <<>> THEN <<>>
  ELSE <<OptimizedItem(Head(ordered), Head(x), bonus_set)>>
       \o PlanItemsEveryVariable(Tail(ordered), Tail(x), bonus_set)

\* the items of the plan before sorting: the variables above the tolerance
RECURSIVE PlanItems(_, _, _)
PlanItems(ordered, x, bonus_set) ==
  IF ordered = <<>> THEN <<>>
  ELSE (IF RLe(Head(x), Tolerance) THEN <<>>
        ELSE <<OptimizedItem(Head(ordered), Head(x), bonus_set)>>)
       \o PlanItems(Tail(ordered), Tail(x), bonus_set)

\* items.sort(key=lambda item: item.astralite, reverse=True): stable
RECURSIVE InsertSorted(_, _)
InsertSorted(sorted, item) ==
  IF sorted = <<>> THEN <<item>>
  ELSE IF RLe(item.astralite, sorted[Len(sorted)].astralite) THEN Append(sorted, item)
  ELSE Append(InsertSorted(SubSeq(sorted, 1, Len(sorted) - 1), item),
              sorted[Len(sorted)])

\* the items left in the order of the profiles
ItemsInProfileOrder(items, acc) == acc \o items

RECURSIVE SortItems(_, _)
SortItems(items, acc) ==
  IF items = <<>> THEN acc
  ELSE SortItems(Tail(items), InsertSorted(acc, Head(items)))

RECURSIVE TotalAstralite(_)
TotalAstralite(items) ==
  IF items = <<>> THEN RZero
  ELSE RAdd(Head(items).astralite, TotalAstralite(Tail(items)))

\* facility_usage: 0.0 for every facility of capacities, plus every usage
RECURSIVE AddUsage(_, _)
AddUsage(facility_usage, items) ==
  IF items = <<>> THEN facility_usage
  ELSE LET usage == Head(items).facility_minutes
       IN AddUsage([f \in (DOMAIN facility_usage) \cup (DOMAIN usage) |->
                      IF f \in DOMAIN usage
                      THEN RAdd(DictGet(facility_usage, f, RZero), usage[f])
                      ELSE facility_usage[f]],
                   Tail(items))

OptimizationResult(items, total_astralite, facility_usage, status) ==
  [items |-> items, total_astralite |-> total_astralite,
   facility_usage |-> facility_usage, status |-> status]

\* the result with the zeroed facility usage kept when the status is not
\* Optimal
SolvedResultUsageKept(status_code, x, ordered, capacities, bonus_set) ==
  LET items == IF status_code = 1 THEN PlanItems(ordered, x, bonus_set) ELSE <<>>
  IN OptimizationResult(SortItems(items, <<>>),
                        TotalAstralite(items),
                        AddUsage([f \in DOMAIN capacities |-> RZero], items),
                        LpStatus(status_code))

\* optimizer.py 83-117: the result, from the solver's status and values
SolvedResult(status_code, x, ordered, capacities, bonus_set) ==
  IF status_code = 1
  THEN LET items == PlanItems(ordered, x, bonus_set)
       IN OptimizationResult(SortItems(items, <<>>),
                             TotalAstralite(items),
                             AddUsage([f \in DOMAIN capacities |-> RZero], items),
                             LpStatus(status_code))
  ELSE OptimizationResult(<<>>, RZero, EmptyDict, LpStatus(status_code))

\* the early returns with the test for variables made first
EarlyStatusVariablesFirst(profiles, weekly_limit) ==
  IF profiles # <<>> /\ VariableIds(profiles) = {} THEN "No variables"
  ELSE IF RLe(weekly_limit, RZero) \/ profiles = <<>> THEN "No capacity"
  ELSE "solve"

\* optimizer.py 40-41 and 49-50: the returns that come before the programme
EarlyStatus(profiles, weekly_limit) ==
  IF RLe(weekly_limit, RZero) \/ profiles = <<>> THEN "No capacity"
  ELSE IF VariableIds(profiles) = {} THEN "No variables"
  ELSE "solve"

NoRequest == [profiles |-> <<>>, weekly_limit |-> RZero,
              capacities |-> EmptyDict, bonus_item_ids |-> <<>>]
NoResult == OptimizationResult(<<>>, RZero, EmptyDict, "")
\* fetch_json has not been called
NoFetch == [name |-> "", outcome |-> "", value |-> "", requests |-> 0]
\* the datasets stand for what the loader fetched; the loader itself is left out
NoLoader ==
  /\ urls = EmptyDict
  /\ cache = EmptyDict
  /\ sent = <<>>
  /\ fetch = NoFetch
\* no method of the progression repository has been called
NoQuery == [method |-> "", args |-> <<>>, answer |-> 0]

SeqToSet(s) == {s[k] : k \in 1..Len(s)}

\* optimise_portfolio(profiles, weekly_limit, capacities, bonus_item_ids)
optimise_portfolio(profiles, weekly_limit, capacities, bonus_item_ids) ==
  LET early == EarlyStatus(profiles, weekly_limit)
      bonus_set == SeqToSet(bonus_item_ids)
      ordered == OrderedProfiles(profiles)
  IN /\ IF early # "solve"
        THEN /\ result' = OptimizationResult(<<>>, RZero, EmptyDict, early)
             /\ solver_runs' = 0
        ELSE /\ solver_runs' = 1
             /\ \E status_code \in StatusCodes :
                  \E x \in OptimalVertices(Programme(ordered, weekly_limit,
                                                     capacities, bonus_set)) :
                    result' = SolvedResult(status_code, x, ordered, capacities,
                                           bonus_set)

\* ------------------------------------------------------------------------
\* The datasets the calculator is constructed from
\* ------------------------------------------------------------------------
SaleEntry(item_id, ability_id, ability_level, num) ==
  [item_id |-> item_id, ability_id |-> ability_id, ability_level |-> ability_level,
   rewards |-> <<[item_id |-> 14, num |-> num], [item_id |-> 15, num |-> 7]>>]

PlantEntry(harvest_item, growth_stages, estimate_harvests) ==
  [harvest_item |-> harvest_item, growth_stages |-> growth_stages,
   estimate_harvests |-> estimate_harvests]

FishEntry(fish_id, growth_time) == [fish_id |-> fish_id, growth_time |-> growth_time]

Nutrient(consume_count, speedup) == [consume_count |-> consume_count, speedup |-> speedup]

FurnitureEntry(furniture_id, material_consume, time) ==
  [furniture_id |-> furniture_id, material_consume |-> material_consume, time |-> time]

\* ids: 1 a plant, 2 a fish, 3 and 4 furniture, 5 an animal; 9 is sold nowhere
BaseSale == <<SaleEntry(1, 34, 1, 10), SaleEntry(2, 47, 2, 40),
              SaleEntry(3, 22, 1, 500), SaleEntry(4, 22, 3, 0)>>
SaleTables == {BaseSale,
               <<SaleEntry(4, 22, 3, 0), SaleEntry(3, 22, 1, 500),
                 SaleEntry(5, 48, 1, 90), SaleEntry(1, 34, 1, 10)>>}

BaseEn == [item_names |-> (1 :> "Golden Fragrant Cup" @@ 2 :> "Blinko Fish"
                           @@ 3 :> "Cozy Bed" @@ 5 :> "Stardust Lamb"),
           fish_names |-> (7 :> "BLINKO FISH")]
EnTables == {BaseEn,
             [BaseEn EXCEPT !.fish_names = (7 :> "Koi")],
             [BaseEn EXCEPT !.fish_names = [x \in {} |-> ""]]}

\* 960 s less the 600 s speed-up is 6 minutes; 3 per harvest: 2 minutes each
BasePlant == <<PlantEntry(1, <<600, 360>>, <<2, 4>>)>>
BasePlantNutrient == <<Nutrient(1, 300), Nutrient(0, 600), Nutrient(0, 900)>>
BaseFish == <<FishEntry(7, 6600)>>
BaseFishNutrient == <<Nutrient(0, 600)>>

PlantTables ==
  {<<>>, <<PlantEntry(0, <<600>>, <<3>>)>>}
  \cup {<<PlantEntry(1, stages, harvests)>> :
          stages \in {<<>>, <<300>>, <<6600>>, <<600, 360>>},
          harvests \in {<<>>, <<0>>, <<3>>, <<1, 2>>}}
  \cup {<<PlantEntry(1, <<6600>>, <<3>>), PlantEntry(1, <<1200>>, <<1>>)>>}
NutrientTables ==
  {<<>>, <<Nutrient(0, 600)>>, <<Nutrient(2, 300)>>,
   <<Nutrient(1, 300), Nutrient(0, 600), Nutrient(0, 900)>>}
FishTables == {<<>>, <<FishEntry(7, 6600)>>, <<FishEntry(7, 300)>>,
               <<FishEntry(8, 60), FishEntry(7, 660)>>}

Quantities == (0..MaxQty) \cup {50}
MaterialIds == {1, 2, 3, 4, 9}
Recipe(ids, q) ==
  [k \in 1..Len(ids) |->
     [item_id |-> ids[k], quantity |-> IF k = 1 THEN q ELSE MaxQty]]
Recipes3 == {<<>>} \cup {<<a>> : a \in MaterialIds}
            \cup {<<a, b>> : a \in MaterialIds, b \in MaterialIds}
Recipes4 == {<<>>} \cup {<<a>> : a \in MaterialIds}
OneRecipeTables ==
  {<<FurnitureEntry(3, Recipe(r3, q), 60)>> : r3 \in Recipes3, q \in Quantities}
TwoRecipeTables ==
  {<<FurnitureEntry(3, Recipe(r3, 1), 60), FurnitureEntry(4, Recipe(r4, MaxQty), 15)>> :
     r3 \in Recipes3, r4 \in Recipes4}

Dataset(sale, en, plant, plant_nutrient, fish, fish_nutrient, furniture) ==
  [sale |-> sale, en |-> en, plant |-> plant, plant_nutrient |-> plant_nutrient,
   fish |-> fish, fish_nutrient |-> fish_nutrient, furniture |-> furniture]

\* every recipe graph over one catalogue of growth data, and every table of
\* growth data under one recipe
BaseFurniture == <<FurnitureEntry(3, Recipe(<<1, 2>>, 1), 60)>>
RecipeSweep ==
  {Dataset(BaseSale, BaseEn, plant, BasePlantNutrient, BaseFish, BaseFishNutrient,
           furniture) :
     plant \in {BasePlant, <<>>}, furniture \in OneRecipeTables}
  \cup {Dataset(BaseSale, BaseEn, BasePlant, BasePlantNutrient, BaseFish,
                BaseFishNutrient, furniture) : furniture \in TwoRecipeTables}
GrowthSweep ==
  {Dataset(BaseSale, BaseEn, plant, nutrient, BaseFish, BaseFishNutrient,
           BaseFurniture) : plant \in PlantTables, nutrient \in NutrientTables}
  \cup {Dataset(sale, en, BasePlant, BasePlantNutrient, fish, nutrient, BaseFurniture) :
          sale \in SaleTables, en \in EnTables, fish \in FishTables,
          nutrient \in NutrientTables}

\* ProductionCalculator.__init__ on the datasets ds
Constructed(ds) ==
  /\ datasets = ds
  /\ sale_items = LoadSaleItems(ds.sale, ds.en, [x \in {} |-> None])
  /\ sale_order = KeyOrder(ds.sale, <<>>)
  /\ plant_growth = LoadPlantGrowth(ds.plant, DefaultSpeedup(ds.plant_nutrient),
                                    [x \in {} |-> None])
  /\ fish_growth =
       LoadFishGrowth(ds.fish, DefaultSpeedup(ds.fish_nutrient), ds.en,
                      LoadSaleItems(ds.sale, ds.en, [x \in {} |-> None]))
  /\ furniture_recipes = LoadFurnitureRecipes(ds.furniture, [x \in {} |-> <<>>])
  /\ furniture_time = LoadFurnitureTime(ds.furniture, EmptyDict)
  /\ profile_cache = [x \in {} |-> None]
  /\ stack = {}
  /\ frames = <<>>
  /\ call = NoCall
  /\ loop = IdleLoop
  /\ build_count = [i \in {e.item_id : e \in {ds.sale[k] : k \in 1..Len(ds.sale)}} |-> 0]

\* no call of optimise_portfolio has been made
NotOptimised ==
  /\ request = NoRequest
  /\ result = NoResult
  /\ solver_runs = 0

\* the calculator on its own, outside the web application
NoApp ==
  /\ rewards_by_ability = EmptyDict
  /\ total_level_bonuses = <<>>
  /\ base_weekly_limit = 0
  /\ modelled_profiles = <<>>
  /\ startup = "none"
  /\ payload = None
  /\ response = None
  /\ reward_data = <<>>
  /\ total_level_data = <<>>
  /\ query = NoQuery

CallIds == {1, 2, 3, 4, 5, 9}

Init ==
  /\ \E ds \in RecipeSweep \cup GrowthSweep : Constructed(ds)
  /\ NotOptimised
  /\ NoApp
  /\ NoLoader

Next ==
  \/ \E item_id \in CallIds : ComputeProfile(item_id)
  \/ Resolve
  \/ Return
  \/ SupportedProfilesStart
  \/ SupportedProfilesCall
  \/ SupportedProfilesCollect

vars == <<calc_vars, opt_vars, app_vars, prog_vars, loader_vars>>

Spec == Init /\ [][Next]_vars


\* ------------------------------------------------------------------------
\* optimise_portfolio on its own: the calls a caller can make
\* ------------------------------------------------------------------------
OptSale(item_id, ability_id, sale_value) ==
  [item_id |-> item_id, ability_id |-> ability_id, ability_level |-> 1,
   sale_value |-> R(sale_value), name |-> ItemLabel(item_id),
   category |-> ABILITY_CATEGORY(ability_id)]

PlantProfiles ==
  {Profile(<<1, 1>>, OptSale(1, 34, v), (PLANT_FACILITY :> R(1)), <<>>, <<>>) :
     v \in {-1, 0, 2}}
FishProfiles ==
  {Profile(<<2, 1>>, OptSale(2, 47, 3), (FISH_FACILITY :> R(2)), <<>>, <<>>),
   Profile(<<2, 1>>, OptSale(2, 47, 3), EmptyDict, <<>>, <<NOTE_FISH>>)}
BedProfile ==
  Profile(<<3, 1>>, OptSale(3, 22, 5),
          (CRAFT_FACILITY :> R(1) @@ PLANT_FACILITY :> R(2)), <<>>, <<>>)
\* worth so much that a plan within a weekly limit of 1 is below 1e-6 units
GemProfile ==
  Profile(<<4, 1>>, OptSale(4, 22, 2000000), (CRAFT_FACILITY :> R(1)), <<>>, <<>>)

ProfileLists ==
  {a \o b \o c : a \in {<<>>} \cup {<<p>> : p \in PlantProfiles},
                 b \in {<<>>} \cup {<<p>> : p \in FishProfiles},
                 c \in {<<>>, <<BedProfile>>}}
  \cup {<<BedProfile>> \o b \o a : a \in {<<p>> : p \in PlantProfiles},
                                   b \in {<<p>> : p \in FishProfiles}}

CapacityMaps ==
  {(PLANT_FACILITY :> R(a) @@ FISH_FACILITY :> R(b) @@ CRAFT_FACILITY :> R(c)) :
     a \in {0, 2, MaxCapacity}, b \in {-1, 4}, c \in {0, 1}}
  \cup {EmptyDict, (PLANT_FACILITY :> R(MaxCapacity)), (PLANT_FACILITY :> R(0))}

WeeklyLimits == {R(-1), R(0), R(1), R(4), R(100)}

BonusLists == {<<>>, <<1>>, <<3>>, <<3, 2, 1>>, <<2, 2>>}

\* the caller's arguments
Requests ==
  [profiles : ProfileLists, weekly_limit : WeeklyLimits,
   capacities : CapacityMaps, bonus_item_ids : BonusLists]
  \cup [profiles : {<<GemProfile>>}, weekly_limit : {R(0), R(1)},
        capacities : CapacityMaps, bonus_item_ids : {<<>>, <<4>>}]

\* one call of optimise_portfolio with the arguments of the request
OptimisePortfolio ==
  /\ result = NoResult
  /\ optimise_portfolio(request.profiles, request.weekly_limit,
                        request.capacities, request.bonus_item_ids)
  /\ UNCHANGED <<calc_vars, request, app_vars, prog_vars, loader_vars>>

OptInit ==
  /\ \E ds \in {Dataset(BaseSale, BaseEn, BasePlant, BasePlantNutrient, BaseFish,
                         BaseFishNutrient, BaseFurniture)} : Constructed(ds)
  /\ request \in Requests
  /\ result = NoResult
  /\ solver_runs = 0
  /\ NoApp
  /\ NoLoader

OptNext == OptimisePortfolio

SpecOpt == OptInit /\ [][OptNext]_vars

\* ------------------------------------------------------------------------
\* ProgressionRepository (progression.py)
\* ------------------------------------------------------------------------
\* the items of one reward entry: num summed by item id, item id 0 skipped
RECURSIVE RewardItems(_, _)
RewardItems(des_item, items) ==
  IF des_item = <<>> THEN items
  ELSE LET reward == Head(des_item)
       IN RewardItems(Tail(des_item),
                      IF reward.item_id = 0 THEN items
                      ELSE DictSet(items, reward.item_id,
                                   DictGet(items, reward.item_id, 0) + reward.num))

LevelReward(entry) ==
  [ability_id |-> entry.id \div 1000,
   level |-> entry.id % 1000,
   items |-> RewardItems(entry.des_item, EmptyDict)]

TotalLevelBonus(entry) ==
  [level |-> entry.level,
   weekly_bonus |-> IF "gold_weekmax" \in DOMAIN entry THEN entry.gold_weekmax ELSE 0]

\* list.sort(key=level): ascending and stable
RECURSIVE InsertByLevel(_, _)
InsertByLevel(sorted, e) ==
  IF sorted = <<>> THEN <<e>>
  ELSE IF sorted[Len(sorted)].level <= e.level THEN Append(sorted, e)
  ELSE Append(InsertByLevel(SubSeq(sorted, 1, Len(sorted) - 1), e),
              sorted[Len(sorted)])

RECURSIVE SortByLevel(_, _)
SortByLevel(entries, sorted) ==
  IF entries = <<>> THEN sorted
  ELSE SortByLevel(Tail(entries), InsertByLevel(sorted, Head(entries)))

RECURSIVE LoadRewards(_, _)
LoadRewards(table, by_ability) ==
  IF table = <<>>
  THEN [a \in DOMAIN by_ability |-> SortByLevel(by_ability[a], <<>>)]
  ELSE LET reward == LevelReward(Head(table))
       IN LoadRewards(Tail(table),
                      DictSet(by_ability, reward.ability_id,
                              Append(DictGet(by_ability, reward.ability_id, <<>>),
                                     reward)))

\* the total-level table kept in load order
LoadTotalLevelBonusesInLoadOrder(table) ==
  [k \in 1..Len(table) |-> TotalLevelBonus(table[k])]

LoadTotalLevelBonuses(table) ==
  SortByLevel([k \in 1..Len(table) |-> TotalLevelBonus(table[k])], <<>>)

\* the totals over every tier, whatever the level asked for
RECURSIVE RewardTotalsEveryTier(_, _, _)
RewardTotalsEveryTier(rewards, level, totals) ==
  IF rewards = <<>> THEN totals
  ELSE RewardTotalsEveryTier(Tail(rewards), level,
                             [i \in (DOMAIN totals) \cup (DOMAIN Head(rewards).items) |->
                                DictGet(totals, i, 0) + DictGet(Head(rewards).items, i, 0)])

RECURSIVE RewardTotals(_, _, _)
RewardTotals(rewards, level, totals) ==
  IF rewards = <<>> THEN totals
  ELSE IF Head(rewards).level > level THEN totals
  ELSE RewardTotals(Tail(rewards), level,
                    [i \in (DOMAIN totals) \cup (DOMAIN Head(rewards).items) |->
                       DictGet(totals, i, 0) + DictGet(Head(rewards).items, i, 0)])

ability_reward_items(ability_id, level) ==
  RewardTotals(DictGet(rewards_by_ability, ability_id, <<>>), level, EmptyDict)

RECURSIVE SumCounts(_, _)
SumCounts(reward_totals, item_ids) ==
  IF item_ids = <<>> THEN 0
  ELSE DictGet(reward_totals, Head(item_ids), 0)
       + SumCounts(reward_totals, Tail(item_ids))

sum_item_counts(ability_id, level, item_ids) ==
  SumCounts(ability_reward_items(ability_id, level), item_ids)

max_level(ability_id) ==
  LET rewards == DictGet(rewards_by_ability, ability_id, <<>>)
  IN IF rewards = <<>> THEN 0 ELSE rewards[Len(rewards)].level

RECURSIVE WeeklyBonus(_, _, _)
WeeklyBonus(entries, total_level, bonus) ==
  IF entries = <<>> THEN bonus
  ELSE IF Head(entries).level > total_level THEN bonus
  ELSE WeeklyBonus(Tail(entries), total_level, Head(entries).weekly_bonus)

weekly_bonus_for_total_level(total_level) ==
  WeeklyBonus(total_level_bonuses, total_level, 0)

\* ------------------------------------------------------------------------
\* The web application (app.py)
\* ------------------------------------------------------------------------
ABILITY_LABELS == <<22, 34, 45, 47, 48>>
MODELLED_CATEGORIES == {"plant", "fish", "furniture"}
FARMLAND_ITEMS == <<1170000320, 1170000321, 1170000322, 1170000323>>
FISH_POND_ITEMS == <<1170000419>>
WEEK_MINUTES == 10080
DEFAULT_WEEKLY_LIMIT == 100000

\* int(global_config.get("home_money_max", 100000))
BaseWeeklyLimit(global_config) ==
  IF "home_money_max" \in DOMAIN global_config THEN global_config.home_money_max
  ELSE DEFAULT_WEEKLY_LIMIT

IsModelled(profile) == profile.category \in MODELLED_CATEGORIES

\* the level of an ability that a request counts with
ClampedLevel(requested, highest) ==
  IF highest # 0 THEN Max(0, Min(requested, highest)) ELSE Max(0, requested)

RECURSIVE SumLevels(_, _)
SumLevels(ability_levels, ids) ==
  IF ids = <<>> THEN 0
  ELSE ability_levels[Head(ids)] + SumLevels(ability_levels, Tail(ids))

\* every bonus id of the payload, however many
BonusSliceWhole(bonus_item_ids) == bonus_item_ids

\* payload.bonus_item_ids[:4]
BonusSlice(bonus_item_ids) ==
  SubSeq(bonus_item_ids, 1, Min(4, Len(bonus_item_ids)))

PlanItemModel(item) ==
  [item_id |-> item.item_id, name |-> item.name,
   category |-> item.profile.category, multiplier |-> item.multiplier]

\* api_optimise(payload); the rounded figures of the response are left out
api_optimise(p) ==
  LET ability_levels ==
        [a \in SeqToSet(ABILITY_LABELS) |->
           ClampedLevel(DictGet(p.ability_levels, a, 0), max_level(a))]
      total_level == SumLevels(ability_levels, ABILITY_LABELS)
      weekly_bonus == weekly_bonus_for_total_level(total_level)
      weekly_limit == base_weekly_limit + weekly_bonus
      plant_plots == sum_item_counts(34, ability_levels[34], FARMLAND_ITEMS)
      fish_ponds == sum_item_counts(47, ability_levels[47], FISH_POND_ITEMS)
      crafting_slots == Max(p.crafting_slots, 1)
      capacities == (PLANT_FACILITY :> R(plant_plots * WEEK_MINUTES)
                     @@ FISH_FACILITY :> R(fish_ponds * WEEK_MINUTES)
                     @@ CRAFT_FACILITY :> R(crafting_slots * WEEK_MINUTES))
      unlocked(profile) ==
        DictGet(ability_levels, profile.ability_id, 0) >= profile.ability_level
      unlocked_profiles == SelectSeq(modelled_profiles, unlocked)
      bonus_ids == SetToSeq(SeqToSet(BonusSlice(p.bonus_item_ids)))
  IN /\ payload' = p
     /\ request' = [profiles |-> unlocked_profiles,
                    weekly_limit |-> R(weekly_limit),
                    capacities |-> capacities,
                    bonus_item_ids |-> bonus_ids]
     /\ optimise_portfolio(unlocked_profiles, R(weekly_limit), capacities, bonus_ids)
     /\ response' =
          [status |-> result'.status,
           weekly_limit |-> weekly_limit,
           weekly_bonus |-> weekly_bonus,
           ability_total |-> total_level,
           plant_plots |-> plant_plots,
           fish_ponds |-> fish_ponds,
           crafting_slots |-> crafting_slots,
           items |-> [k \in 1..Len(result'.items) |-> PlanItemModel(result'.items[k])],
           unlocked_item_ids |->
             [k \in 1..Len(unlocked_profiles) |-> unlocked_profiles[k].item_id],
           message |->
             IF result'.items # <<>> THEN ""
             ELSE IF unlocked_profiles = <<>>
             THEN "Increase ability levels to unlock saleable items."
             ELSE "No feasible plan within the current facility limits."]

\* app.py 53: ALL_PROFILES = calculator.supported_profiles() is entered
AppProfilesStart ==
  /\ startup = "import"
  /\ loop = IdleLoop
  /\ SupportedProfilesStart

\* app.py 53-54: supported_profiles has returned
AppProfilesLoaded ==
  /\ startup = "import"
  /\ ~loop.active
  /\ loop # IdleLoop
  /\ modelled_profiles' = SelectSeq(loop.profiles, IsModelled)
  /\ startup' = "serving"
  /\ UNCHANGED <<calc_vars, opt_vars, rewards_by_ability, total_level_bonuses,
                 base_weekly_limit, payload, response, prog_vars, loader_vars>>

\* the tables of the application
RewardEntry(id, des_item) == [id |-> id, des_item |-> des_item]
Granted(item_id, num) == [item_id |-> item_id, num |-> num]
AppRewards ==
  <<RewardEntry(34003, <<Granted(1170000321, 1), Granted(0, 5)>>),
    RewardEntry(34001, <<Granted(1170000320, 1), Granted(77, 1)>>),
    RewardEntry(47002, <<Granted(1170000419, 1)>>),
    RewardEntry(22002, <<>>)>>
AppTotalLevels ==
  <<[level |-> 3, gold_weekmax |-> 10], [level |-> 1]>>
AppGlobalConfig == [home_money_max |-> 20]

\* 1 a plant, 2 a fish, 3 a bed made of both, 5 an animal, 6 a plant that no
\* growth table lists
AppSale == <<SaleEntry(1, 34, 1, 2), SaleEntry(2, 47, 2, 3), SaleEntry(3, 22, 1, 5),
             SaleEntry(5, 48, 1, 9), SaleEntry(6, 34, 2, 4)>>
AppDataset ==
  Dataset(AppSale, BaseEn, BasePlant, BasePlantNutrient, <<FishEntry(7, 660)>>,
          BaseFishNutrient, BaseFurniture)

AbilityLevelMaps ==
  {EmptyDict,
   (22 :> 1),
   (22 :> 1 @@ 34 :> 1 @@ 47 :> 2),
   (22 :> 9 @@ 34 :> 9 @@ 47 :> 9 @@ 48 :> 9),
   (22 :> 2 @@ 34 :> 2 @@ 47 :> -1),
   (34 :> 3 @@ 45 :> 1 @@ 48 :> 1)}
BonusIdLists ==
  {<<>>, <<3>>, <<1, 2, 3, 6>>, <<1, 1, 1, 1, 3>>, <<1, 2, 6, 5, 3>>,
   <<3, 1, 1, 1, 3>>, <<9, 9, 1, 9, 9, 3>>}
Payloads ==
  [ability_levels : AbilityLevelMaps, bonus_item_ids : BonusIdLists,
   crafting_slots : {1, 2}]

\* POST /api/optimise, once
ApiOptimise ==
  /\ startup = "serving"
  /\ result = NoResult
  /\ \E p \in Payloads : api_optimise(p)
  /\ UNCHANGED <<calc_vars, rewards_by_ability, total_level_bonuses,
                 base_weekly_limit, modelled_profiles, startup, prog_vars, loader_vars>>

\* a caller of the library that passes the catalogue and its own bonus ids
DirectOptimise ==
  /\ startup = "serving"
  /\ result = NoResult
  /\ \E bonus_item_ids \in BonusIdLists, weekly_limit \in {R(20)} :
       /\ request' = [profiles |-> modelled_profiles,
                      weekly_limit |-> weekly_limit,
                      capacities |-> EmptyDict,
                      bonus_item_ids |-> bonus_item_ids]
       /\ optimise_portfolio(modelled_profiles, weekly_limit, EmptyDict,
                             bonus_item_ids)
  /\ UNCHANGED <<calc_vars, app_vars, prog_vars, loader_vars>>

AppInit ==
  /\ Constructed(AppDataset)
  /\ NotOptimised
  /\ NoLoader
  /\ reward_data = AppRewards
  /\ total_level_data = AppTotalLevels
  /\ query = NoQuery
  /\ rewards_by_ability = LoadRewards(reward_data, EmptyDict)
  /\ total_level_bonuses = LoadTotalLevelBonuses(total_level_data)
  /\ base_weekly_limit = BaseWeeklyLimit(AppGlobalConfig)
  /\ modelled_profiles = <<>>
  /\ startup = "import"
  /\ payload = None
  /\ response = None

AppNext ==
  \/ AppProfilesStart
  \/ SupportedProfilesCall
  \/ SupportedProfilesCollect
  \/ Resolve
  \/ Return
  \/ AppProfilesLoaded
  \/ ApiOptimise
  \/ DirectOptimise

SpecApp == AppInit /\ [][AppNext]_vars

\* ------------------------------------------------------------------------
\* The progression repository on its own: built from a reward table and a
\* total-level table in some load order, then queried
\* ------------------------------------------------------------------------
\* the sequences of at most n different members of S
Arrangements(S, n) ==
  {t \in UNION {[1..k -> S] : k \in 0..n} :
     \A i, j \in DOMAIN t : i # j => t[i] # t[j]}

\* Planting tiers 1 to 3 (tier 2 twice, once taking item 8 back), Fishing
\* tiers 1 and 3; item id 0 stands for a reward without an item id
RewardPool ==
  {RewardEntry(34001, <<Granted(7, 1)>>),
   RewardEntry(34002, <<Granted(7, 2), Granted(8, 1), Granted(7, 1)>>),
   RewardEntry(34003, <<Granted(8, 3), Granted(0, 9)>>),
   RewardEntry(34002, <<Granted(8, -1)>>),
   RewardEntry(47001, <<Granted(7, 5)>>),
   RewardEntry(47003, <<>>)}
TotalLevelPool ==
  {[level |-> 5, gold_weekmax |-> 50000],
   [level |-> 10, gold_weekmax |-> 80000],
   [level |-> 5, gold_weekmax |-> 60000],
   [level |-> 3],
   [level |-> 8, gold_weekmax |-> 0]}
BaseRewards == <<RewardEntry(34001, <<Granted(7, 1)>>)>>
BaseTotalLevels == <<[level |-> 5, gold_weekmax |-> 50000]>>
ProgTables ==
  {<<r, BaseTotalLevels>> : r \in Arrangements(RewardPool, MaxTiers)}
  \cup {<<BaseRewards, t>> : t \in Arrangements(TotalLevelPool, MaxTiers)}

QueryAbilities == {22, 34, 47}
QueryLevels == (-1)..MaxLevel
QueryTotals == (-1)..MaxTotalLevel
QueryItemIds == {<<>>, <<7>>, <<8>>, <<7, 8>>, <<8, 9, 8>>, <<0>>}

\* the methods read the repository and change nothing, so one call from the
\* constructed repository stands for a call at any time
Answered(method, args, answer) ==
  /\ query = NoQuery
  /\ query' = [method |-> method, args |-> args, answer |-> answer]

CallAbilityRewardItems ==
  /\ \E ability_id \in QueryAbilities, level \in QueryLevels :
       Answered("ability_reward_items", [ability_id |-> ability_id, level |-> level],
                ability_reward_items(ability_id, level))
  /\ UNCHANGED <<calc_vars, opt_vars, app_vars, reward_data, total_level_data,
                 loader_vars>>

CallSumItemCounts ==
  /\ \E ability_id \in QueryAbilities, level \in QueryLevels,
        item_ids \in QueryItemIds :
       Answered("sum_item_counts",
                [ability_id |-> ability_id, level |-> level, item_ids |-> item_ids],
                sum_item_counts(ability_id, level, item_ids))
  /\ UNCHANGED <<calc_vars, opt_vars, app_vars, reward_data, total_level_data,
                 loader_vars>>

CallMaxLevel ==
  /\ \E ability_id \in QueryAbilities :
       Answered("max_level", [ability_id |-> ability_id], max_level(ability_id))
  /\ UNCHANGED <<calc_vars, opt_vars, app_vars, reward_data, total_level_data,
                 loader_vars>>

CallWeeklyBonusForTotalLevel ==
  /\ \E total_level \in QueryTotals :
       Answered("weekly_bonus_for_total_level", [total_level |-> total_level],
                weekly_bonus_for_total_level(total_level))
  /\ UNCHANGED <<calc_vars, opt_vars, app_vars, reward_data, total_level_data,
                 loader_vars>>

\* ProgressionRepository.__init__ on the two tables
ProgInit ==
  /\ \E ds \in {Dataset(BaseSale, BaseEn, BasePlant, BasePlantNutrient, BaseFish,
                         BaseFishNutrient, BaseFurniture)} : Constructed(ds)
  /\ NotOptimised
  /\ NoLoader
  /\ \E tables \in ProgTables :
       /\ reward_data = tables[1]
       /\ total_level_data = tables[2]
  /\ rewards_by_ability = LoadRewards(reward_data, EmptyDict)
  /\ total_level_bonuses = LoadTotalLevelBonuses(total_level_data)
  /\ base_weekly_limit = 0
  /\ modelled_profiles = <<>>
  /\ startup = "none"
  /\ payload = None
  /\ response = None
  /\ query = NoQuery

ProgNext ==
  \/ CallAbilityRewardItems
  \/ CallSumItemCounts
  \/ CallMaxLevel
  \/ CallWeeklyBonusForTotalLevel

SpecProg == ProgInit /\ [][ProgNext]_vars

\* ------------------------------------------------------------------------
\* RemoteDataLoader (data_loader.py): one loader and the calls of fetch_json
\* made on it
\* ------------------------------------------------------------------------
\* three of the sixteen entries of config.DATA_URLS
DATA_URLS ==
  ("en" :> "main/en.json"
   @@ "TbHomeGlobalConfig" :> "main/TbHomeGlobalConfig.json"
   @@ "TbHomeProductsSaleInfo" :> "main/TbHomeProductsSaleInfo.json")
\* the names fetch_json is called with, one of them in no mapping
FetchNames == DOMAIN DATA_URLS \cup {"TbUnknown"}
\* what response.json() can return for a url: the document served changes
Documents == {"first edition", "second edition"}
\* session.get, response.raise_for_status and response.json raising
TransportErrors == {"ConnectionError", "HTTPError", "JSONDecodeError"}

\* a loader that sends every call to the session
CacheNeverHit(name) == FALSE

\* data_loader.py 30: name in self._cache
InCache(name) == name \in DOMAIN cache

Ended(name, outcome, value, requests) ==
  fetch' = [name |-> name, outcome |-> outcome, value |-> value,
            requests |-> requests]

\* fetch_json(name)
fetch_json(name) ==
  IF name \notin DOMAIN urls
  THEN /\ Ended(name, "KeyError", "", 0)
       /\ UNCHANGED <<cache, sent>>
  ELSE IF InCache(name)
  THEN /\ Ended(name, "returned", cache[name], 0)
       /\ UNCHANGED <<cache, sent>>
  ELSE /\ Len(sent) < MaxRequests
       /\ sent' = Append(sent, urls[name])
       /\ \/ \E error \in TransportErrors :
               /\ Ended(name, error, "", 1)
               /\ UNCHANGED cache
          \/ \E document \in Documents :
               /\ cache' = DictSet(cache, name, document)
               /\ Ended(name, "returned", cache'[name], 1)

FetchJson ==
  /\ \E name \in FetchNames : fetch_json(name)
  /\ UNCHANGED <<calc_vars, opt_vars, app_vars, prog_vars, urls>>

\* RemoteDataLoader(): the default mapping, or one given by the caller
LoaderInit ==
  /\ \E ds \in {Dataset(BaseSale, BaseEn, BasePlant, BasePlantNutrient, BaseFish,
                         BaseFishNutrient, BaseFurniture)} : Constructed(ds)
  /\ NotOptimised
  /\ NoApp
  /\ urls \in {DATA_URLS, ("en" :> "fork/en.json")}
  /\ cache = EmptyDict
  /\ sent = <<>>
  /\ fetch = NoFetch

LoaderNext == FetchJson

SpecLoader == LoaderInit /\ [][LoaderNext]_vars

\* The calculator over every recipe graph, with the fairness of a sequential
\* interpreter: a call of compute_profile that has started keeps executing
GraphSweep ==
  {Dataset(BaseSale, BaseEn, BasePlant, BasePlantNutrient, BaseFish, BaseFishNutrient,
           furniture) :
     furniture \in TwoRecipeTables
                   \cup {<<FurnitureEntry(3, Recipe(r3, MaxQty), 60)>> : r3 \in Recipes3}}

GraphInit ==
  /\ \E ds \in GraphSweep : Constructed(ds)
  /\ NotOptimised
  /\ NoApp
  /\ NoLoader

FairSpec == GraphInit /\ [][Next]_vars /\ WF_vars(Resolve) /\ WF_vars(Return)

\* ------------------------------------------------------------------------
\* Properties of the production calculator
\* ------------------------------------------------------------------------
CachedProfiles == {profile_cache[i] : i \in DOMAIN profile_cache}
FurnitureProfiles == {p \in CachedProfiles : p.category = "furniture"}
Resolved(p) == {k \in 1..Len(p.components) : p.components[k].profile # None}
Unresolved(p) == {k \in 1..Len(p.components) : p.components[k].profile = None}

\* the sum over the resolved components of minutes at facility x quantity
RECURSIVE ComponentSum(_, _)
ComponentSum(components, facility) ==
  IF components = <<>> THEN RZero
  ELSE LET c == Head(components)
           rest == ComponentSum(Tail(components), facility)
       IN IF c.profile = None \/ facility \notin DOMAIN c.profile.facility_minutes
          THEN rest
          ELSE RAdd(RMul(c.profile.facility_minutes[facility], R(c.quantity)), rest)

\* C1: the facility minutes of every furniture profile are, per facility, the
\* item's own craft time (at the crafting facility) plus the sum over the
\* recipe's resolved components of the component's minutes x its quantity
C1_AdditiveMinutes ==
  \A p \in FurnitureProfiles :
    /\ Len(p.components) = Len(Materials(p.item_id))
    /\ \A k \in 1..Len(p.components) :
         /\ p.components[k].item_id = Materials(p.item_id)[k].item_id
         /\ p.components[k].quantity = Materials(p.item_id)[k].quantity
    /\ \A f \in Facilities :
         DictGet(p.facility_minutes, f, RZero) =
           RAdd(IF f = CRAFT_FACILITY THEN DictGet(furniture_time, p.item_id, RZero)
                ELSE RZero,
                ComponentSum(p.components, f))

\* a furniture item needing 50 of a plant that costs 2 plant-plot minutes a
\* unit has 100 plant-plot minutes
C1_Witness ==
  \E p \in FurnitureProfiles :
    /\ Len(p.components) = 1
    /\ p.components[1].quantity = 50
    /\ p.components[1].profile # None
    /\ DictGet(p.components[1].profile.facility_minutes, PLANT_FACILITY, RZero) = R(2)
    /\ DictGet(p.facility_minutes, PLANT_FACILITY, RZero) = R(100)

\* C7: a profile, once cached, is the object every later call returns; a call
\* for a cached item changes nothing; no builder runs twice for an item
C7_Memoised ==
  [][/\ \A i \in DOMAIN profile_cache :
          i \in DOMAIN profile_cache' /\ profile_cache'[i] = profile_cache[i]
     /\ \A i \in DOMAIN build_count : build_count'[i] <= 1
     /\ (call'.done /\ call'.item_id \in DOMAIN profile_cache /\ frames = <<>>)
          => /\ call'.result = profile_cache[call'.item_id]
             /\ profile_cache' = profile_cache
             /\ build_count' = build_count
             /\ stack' = {}]_vars

\* supported_profiles has returned the profile of item 3, and a later
\* compute_profile(3) returned that same object
C7_Witness ==
  /\ ~loop.active
  /\ sale_order = <<1, 2, 3, 4>>
  /\ Len(loop.profiles) = 4
  /\ call.done
  /\ call.item_id = 3
  /\ call.result = loop.profiles[3]
  /\ build_count[3] = 1

FrameIds == {frames[k].item_id : k \in 1..Len(frames)}

\* C8: every call of compute_profile returns; an item in the in-progress set
\* is never entered again, and the set is empty when the call has returned
C8_Terminates ==
  /\ [](call.done => (frames = <<>> /\ stack = {}))
  /\ [](stack = FrameIds /\ Cardinality(FrameIds) = Len(frames))
  /\ (~call.done ~> call.done)

\* compute_profile(3) has returned although item 3 requires itself
C8_Witness ==
  /\ call.done
  /\ call.item_id = 3
  /\ call.result # None
  /\ \E k \in 1..Len(Materials(3)) : Materials(3)[k].item_id = 3
  /\ \E k \in Unresolved(call.result) : call.result.components[k].item_id = 3

\* C9 as claimed: a furniture profile with an unresolved component carries a
\* note about it
C9_MissingComponentNote ==
  \A p \in FurnitureProfiles : Unresolved(p) # {} => p.notes # <<>>

\* the minutes a unit costs by the claim: (raw - speedup) / 60 / yield
ClaimedMinutes(raw_seconds, speedup, yield) ==
  RDiv(Norm(raw_seconds - speedup, 60), yield)
\* the same with the cycle never below zero
ClampedMinutes(raw_seconds, speedup, yield) ==
  RDiv(Norm(Max(0, raw_seconds - speedup), 60), yield)

PlantSpeedup == DefaultSpeedup(datasets.plant_nutrient)
FishSpeedup == DefaultSpeedup(datasets.fish_nutrient)
GrownPlants ==
  {p \in CachedProfiles : p.category = "plant" /\ p.item_id \in DOMAIN plant_growth
                          /\ RGt(plant_growth[p.item_id].average_yield, RZero)}
GrownFish ==
  {p \in CachedProfiles : p.category = "fish" /\ p.item_id \in DOMAIN fish_growth}

\* C10 as claimed: minutes per unit = (raw - speedup) / 60 / yield whatever
\* the speed-up
C10_UnclampedMinutes ==
  /\ \A p \in GrownPlants :
       p.facility_minutes =
         (PLANT_FACILITY :> ClaimedMinutes(plant_growth[p.item_id].growth_time_sec,
                                           PlantSpeedup,
                                           plant_growth[p.item_id].average_yield))
  /\ \A p \in GrownFish :
       p.facility_minutes =
         (FISH_FACILITY :> ClaimedMinutes(fish_growth[p.item_id].growth_time_sec,
                                          FishSpeedup, R(1)))

\* C10 as amended: minutes per unit = max(0, raw - speedup) / 60 / yield for
\* every plant with growth data and a positive yield and every fish with
\* growth data (yield 1)
C10_ClampedMinutes ==
  /\ \A p \in GrownPlants :
       p.facility_minutes =
         (PLANT_FACILITY :> ClampedMinutes(plant_growth[p.item_id].growth_time_sec,
                                           PlantSpeedup,
                                           plant_growth[p.item_id].average_yield))
  /\ \A p \in GrownFish :
       p.facility_minutes =
         (FISH_FACILITY :> ClampedMinutes(fish_growth[p.item_id].growth_time_sec,
                                          FishSpeedup, R(1)))

\* 6600 seconds, a 600 second speed-up and 3 per harvest: 100/3 minutes
C10_Witness ==
  \E p \in GrownPlants :
    /\ plant_growth[p.item_id].growth_time_sec = 6600
    /\ PlantSpeedup = 600
    /\ plant_growth[p.item_id].average_yield = R(3)
    /\ p.facility_minutes[PLANT_FACILITY] = <<100, 3>>

\* the plants and fish whose timing is missing: no growth data, or a yield
\* that computes to zero or less
UntimedProfiles ==
  {p \in CachedProfiles :
     \/ /\ p.category = "plant"
        /\ \/ p.item_id \notin DOMAIN plant_growth
           \/ RLe(plant_growth[p.item_id].average_yield, RZero)
     \/ /\ p.category = "fish"
        /\ p.item_id \notin DOMAIN fish_growth}
\* facility minutes are absent or infinite
NoFiniteMinutes(p) ==
  \A f \in DOMAIN p.facility_minutes : p.facility_minutes[f] = RInf

\* C11 as claimed: a plant or fish without growth data, or with a yield of
\* zero, has absent or infinite facility minutes and carries an explanatory
\* note, in both cases
C11_NoteWhenUntimed ==
  \A p \in UntimedProfiles : NoFiniteMinutes(p) /\ p.notes # <<>>

\* the part of C11 the code keeps: the minutes are absent or infinite in both
\* cases, and the note is written when the growth data is absent
C11_NoMinutesWhenUntimed ==
  \A p \in UntimedProfiles :
    /\ NoFiniteMinutes(p)
    /\ (p.category = "plant" /\ p.item_id \notin DOMAIN plant_growth)
         => (p.facility_minutes = EmptyDict /\ p.notes = <<NOTE_PLANT>>)
    /\ (p.category = "fish" /\ p.item_id \notin DOMAIN fish_growth)
         => (p.facility_minutes = EmptyDict /\ p.notes = <<NOTE_FISH>>)

\* a plant whose harvest estimate averages 0 is cached with infinite minutes
\* and no note at all
C11_ZeroYieldWithoutNote ==
  \E p \in UntimedProfiles :
    /\ p.category = "plant"
    /\ p.item_id \in DOMAIN plant_growth
    /\ plant_growth[p.item_id].average_yield = RZero
    /\ p.facility_minutes = (PLANT_FACILITY :> RInf)
    /\ p.notes = <<>>

\* ------------------------------------------------------------------------
\* Results of optimise_portfolio
\* ------------------------------------------------------------------------
\* a call has returned
Returned == result.status # ""

RECURSIVE ReportedMinutes(_, _)
ReportedMinutes(items, f) ==
  IF items = <<>> THEN RZero
  ELSE RAdd(DictGet(Head(items).facility_minutes, f, RZero),
            ReportedMinutes(Tail(items), f))

\* units x sale value x (1.2 for an id of the request's bonus ids, else 1)
EarnedValue(item) ==
  RMul(RMul(item.units, item.profile.sale_value),
       IF \E k \in 1..Len(request.bonus_item_ids) :
            request.bonus_item_ids[k] = item.item_id
       THEN <<12, 10>> ELSE R(1))

RECURSIVE EarnedTotal(_)
EarnedTotal(items) ==
  IF items = <<>> THEN RZero
  ELSE RAdd(EarnedValue(Head(items)), EarnedTotal(Tail(items)))

WithinWeeklyLimit ==
  /\ RLe(EarnedTotal(result.items), RAdd(request.weekly_limit, Tolerance))
  /\ RLe(TotalAstralite(result.items), RAdd(request.weekly_limit, Tolerance))
  /\ RLe(result.total_astralite, RAdd(request.weekly_limit, Tolerance))

\* C2: for every result and every facility f named in capacities, whatever
\* its capacity, the minutes of f reported by the returned items sum to at
\* most capacities[f] + 1e-6.
C2_UsageWithinCapacity ==
  Returned =>
    \A f \in DOMAIN request.capacities :
      RLe(ReportedMinutes(result.items, f),
          RAdd(request.capacities[f], Tolerance))

\* the same bound for the facilities whose capacity is positive
UsageWithinPositiveCapacity ==
  Returned =>
    \A f \in DOMAIN request.capacities :
      RGt(request.capacities[f], RZero) =>
        RLe(ReportedMinutes(result.items, f),
            RAdd(request.capacities[f], Tolerance))

\* a plan that uses a facility whose capacity is 0
C2_ZeroCapacityUsed ==
  /\ result.status = "Optimal"
  /\ \E f \in DOMAIN request.capacities :
       /\ request.capacities[f] = RZero
       /\ RGt(ReportedMinutes(result.items, f), RZero)

\* C3 as stated: for every result, the earned value of the returned items,
\* bonus multiplier included, and result.total_astralite are at most
\* weekly_limit + 1e-6.
C3_WeeklyCapEveryLimit == Returned => WithinWeeklyLimit

\* C3: for every result of a call with weekly_limit >= 0, the earned value of
\* the returned items, bonus multiplier included, and result.total_astralite
\* are at most weekly_limit + 1e-6.
C3_WeeklyCap ==
  (Returned /\ RLe(RZero, request.weekly_limit)) => WithinWeeklyLimit

\* the weekly cap binds a plan that holds an item with the bonus multiplier
C3_Witness ==
  /\ result.status = "Optimal"
  /\ \E k \in 1..Len(result.items) : result.items[k].multiplier = <<6, 5>>
  /\ EarnedTotal(result.items) = request.weekly_limit
  /\ \A f \in DOMAIN request.capacities :
       RGt(request.capacities[f], RZero) =>
         ~RLe(request.capacities[f], ReportedMinutes(result.items, f))

\* the programme as the documentation states it, on the request alone
PositiveItems ==
  {k \in 1..Len(request.profiles) : RGt(request.profiles[k].sale_value, RZero)}

UnitValue(k) ==
  RMul(request.profiles[k].sale_value,
       IF \E j \in 1..Len(request.bonus_item_ids) :
            request.bonus_item_ids[j] = request.profiles[k].item_id
       THEN <<12, 10>> ELSE R(1))

UnitMinutes(k, f) == DictGet(request.profiles[k].facility_minutes, f, RZero)

PositiveFacilities ==
  {f \in DOMAIN request.capacities : RGt(request.capacities[f], RZero)}

\* the sum of weight(k) * q[k] over the items k..Len(profiles) of the plan q
RECURSIVE PlanSum(_, _, _)
PlanSum(q, weight(_), k) ==
  IF k > Len(request.profiles) THEN RZero
  ELSE RAdd(IF k \in DOMAIN q THEN RMul(weight(k), q[k]) ELSE RZero,
            PlanSum(q, weight, k + 1))

PlanValue(q) == PlanSum(q, UnitValue, 1)

PlanFeasible(q) ==
  /\ \A f \in PositiveFacilities :
       LET minutes(k) == UnitMinutes(k, f)
       IN RLe(PlanSum(q, minutes, 1), request.capacities[f])
  /\ RLe(PlanValue(q), request.weekly_limit)

\* plans of 0, 1/2, 1, ... GridUnits/2 units of every item
GridPlans == [PositiveItems -> {Norm(h, 2) : h \in 0..GridUnits}]

\* plans of one item alone, as much of it as one constraint allows
SingleItemAmounts(k) ==
  {RQuot(request.weekly_limit, UnitValue(k))}
  \cup {RQuot(request.capacities[f], UnitMinutes(k, f)) :
          f \in {g \in PositiveFacilities : RGt(UnitMinutes(k, g), RZero)}}

SingleItemPlans ==
  UNION {{[j \in PositiveItems |-> IF j = k THEN amount ELSE RZero] :
            amount \in SingleItemAmounts(k)} : k \in PositiveItems}

\* what the quantities at or below 1e-6, left out of the plan, can be worth
OmittedValue ==
  LET one(k) == R(1)
  IN RMul(Tolerance, PlanSum([k \in PositiveItems |-> UnitValue(k)], one, 1))

C4_OmittedQuantity ==
  /\ result.status = "Optimal"
  /\ result.items = <<>>
  /\ \E q \in SingleItemPlans : PlanFeasible(q) /\ RGt(PlanValue(q), RZero)

EmptyResult(status) ==
  /\ result.items = <<>>
  /\ result.total_astralite = RZero
  /\ result.facility_usage = EmptyDict
  /\ result.status = status
  /\ solver_runs = 0

\* C5: without a run of the solver, with no items, total 0 and empty
\* facility usage: weekly_limit <= 0 gives "No capacity" for any profiles and
\* capacities; an empty profile list gives "No capacity"; otherwise a list in
\* which no profile has sale value > 0 gives "No variables".
C5_EarlyReturns ==
  Returned =>
    /\ RLe(request.weekly_limit, RZero) => EmptyResult("No capacity")
    /\ request.profiles = <<>> => EmptyResult("No capacity")
    /\ (/\ RGt(request.weekly_limit, RZero)
        /\ request.profiles # <<>>
        /\ PositiveItems = {}) => EmptyResult("No variables")

\* weekly_limit <= 0 with a profile to sell and a facility to make it in
C5_Witness ==
  /\ EmptyResult("No capacity")
  /\ RLe(request.weekly_limit, RZero)
  /\ PositiveItems # {}
  /\ PositiveFacilities # {}

\* the other two early returns
C5_NoProfiles ==
  EmptyResult("No capacity") /\ request.profiles = <<>>
    /\ RGt(request.weekly_limit, RZero)
C5_NoVariables ==
  EmptyResult("No variables") /\ request.profiles # <<>>

\* ------------------------------------------------------------------------
\* Bonus items
\* ------------------------------------------------------------------------
\* the ids among the first four entries of a list of bonus ids
FirstFour(ids) == {ids[k] : k \in {j \in 1..Len(ids) : j <= 4}}

\* the bonus ids the caller passed: to the API, or to optimise_portfolio
PassedBonusIds ==
  IF payload = None THEN request.bonus_item_ids ELSE payload.bonus_item_ids

C6_BonusApplied ==
  /\ payload # None
  /\ Len(payload.bonus_item_ids) >= 5
  /\ \E k \in 1..Len(response.items) :
       /\ response.items[k].item_id \in FirstFour(payload.bonus_item_ids)
       /\ response.items[k].multiplier = <<6, 5>>

\* passed to optimise_portfolio itself, a fifth bonus id is in the plan at 1.2
C6_FifthHonoured ==
  /\ payload = None
  /\ Len(request.bonus_item_ids) >= 5
  /\ \E k \in 1..Len(result.items) :
       /\ result.items[k].item_id = request.bonus_item_ids[5]
       /\ result.items[k].item_id \notin FirstFour(request.bonus_item_ids)
       /\ result.items[k].multiplier = <<6, 5>>

\* ------------------------------------------------------------------------
\* Properties of the progression repository
\* ------------------------------------------------------------------------
\* the tiers of the total-level table as loaded, by position
TierLevel(k) == total_level_data[k].level
TierBonus(k) ==
  IF "gold_weekmax" \in DOMAIN total_level_data[k]
  THEN total_level_data[k].gold_weekmax ELSE 0
\* the tiers whose level does not exceed total
TiersReached(total) == {k \in DOMAIN total_level_data : TierLevel(k) <= total}

\* C12: weekly_bonus_for_total_level(total) is the weekly bonus of a tier with
\* the highest level not exceeding total, whatever the order the table was
\* loaded in, and 0 when total is below every tier
C12_StepLookup ==
  query.method = "weekly_bonus_for_total_level" =>
    LET reached == TiersReached(query.args.total_level)
    IN IF reached = {} THEN query.answer = 0
       ELSE \E k \in reached :
              /\ \A j \in reached : TierLevel(j) <= TierLevel(k)
              /\ query.answer = TierBonus(k)

\* the table was loaded with level 10 before level 5; total level 5 gives the
\* 50000 of the tier at level 5
C12_Witness ==
  /\ query.method = "weekly_bonus_for_total_level"
  /\ total_level_data = <<[level |-> 10, gold_weekmax |-> 80000],
                          [level |-> 5, gold_weekmax |-> 50000]>>
  /\ query.args.total_level = 5
  /\ query.answer = 50000

\* with the single tier at level 5 granting 50000, total level 1 gives 0
C12_BelowFirstTier ==
  /\ query.method = "weekly_bonus_for_total_level"
  /\ total_level_data = <<[level |-> 5, gold_weekmax |-> 50000]>>
  /\ query.args.total_level = 1
  /\ query.answer = 0

\* what the reward table as loaded grants: the quantity of item_id in one
\* entry, and in every entry of ability_id whose tier is at or below level
RECURSIVE GrantedInEntry(_, _)
GrantedInEntry(des_item, item_id) ==
  IF des_item = <<>> THEN 0
  ELSE (IF Head(des_item).item_id = item_id THEN Head(des_item).num ELSE 0)
       + GrantedInEntry(Tail(des_item), item_id)
InTier(entry, ability_id, level) ==
  entry.id \div 1000 = ability_id /\ entry.id % 1000 <= level
RECURSIVE GrantedUpTo(_, _, _, _)
GrantedUpTo(entries, ability_id, level, item_id) ==
  IF entries = <<>> THEN 0
  ELSE (IF InTier(Head(entries), ability_id, level)
        THEN GrantedInEntry(Head(entries).des_item, item_id) ELSE 0)
       + GrantedUpTo(Tail(entries), ability_id, level, item_id)
\* the item ids those entries name (0 is a reward without an item id)
ItemsUpTo(ability_id, level) ==
  UNION {{reward_data[k].des_item[j].item_id : j \in DOMAIN reward_data[k].des_item} :
           k \in {k \in DOMAIN reward_data :
                    InTier(reward_data[k], ability_id, level)}} \ {0}
\* the cumulative quantity of one item id, 0 for an id that no tier names
Cumulative(ability_id, level, item_id) ==
  IF item_id \in ItemsUpTo(ability_id, level)
  THEN GrantedUpTo(reward_data, ability_id, level, item_id) ELSE 0
RECURSIVE CumulativeSum(_, _, _)
CumulativeSum(ability_id, level, item_ids) ==
  IF item_ids = <<>> THEN 0
  ELSE Cumulative(ability_id, level, Head(item_ids))
       + CumulativeSum(ability_id, level, Tail(item_ids))
\* no reward of the table takes anything back
NonNegativeRewards ==
  \A k \in DOMAIN reward_data :
    \A j \in DOMAIN reward_data[k].des_item : reward_data[k].des_item[j].num >= 0
\* the query levels below the level of the last call
LowerLevels == {l \in QueryLevels : l <= query.args.level}

\* C13: ability_reward_items(ability_id, level) holds, per item id, the sum of
\* the quantities of every tier of that ability at or below level and nothing
\* else; sum_item_counts is the sum of those quantities over the given ids;
\* with non-negative quantities neither decreases when the level rises
C13_CumulativeRewards ==
  /\ query.method = "ability_reward_items" =>
       /\ DOMAIN query.answer = ItemsUpTo(query.args.ability_id, query.args.level)
       /\ \A i \in DOMAIN query.answer :
            query.answer[i] = GrantedUpTo(reward_data, query.args.ability_id,
                                          query.args.level, i)
       /\ NonNegativeRewards =>
            \A l \in LowerLevels :
              \A i \in DOMAIN ability_reward_items(query.args.ability_id, l) :
                /\ i \in DOMAIN query.answer
                /\ ability_reward_items(query.args.ability_id, l)[i] <= query.answer[i]
  /\ query.method = "sum_item_counts" =>
       /\ query.answer = CumulativeSum(query.args.ability_id, query.args.level,
                                       query.args.item_ids)
       /\ NonNegativeRewards =>
            \A l \in LowerLevels :
              sum_item_counts(query.args.ability_id, l, query.args.item_ids)
                <= query.answer

\* Planting tier 3 and a Fishing tier were loaded before Planting tier 2:
\* level 2 of Planting counts the 2 + 1 of item 7 and the 1 of item 8 of
\* tier 2 only
C13_Witness ==
  /\ query.method = "ability_reward_items"
  /\ reward_data = <<RewardEntry(34003, <<Granted(8, 3), Granted(0, 9)>>),
                     RewardEntry(47001, <<Granted(7, 5)>>),
                     RewardEntry(34002, <<Granted(7, 2), Granted(8, 1), Granted(7, 1)>>)>>
  /\ query.args.ability_id = 34
  /\ query.args.level = 2
  /\ query.answer = (7 :> 3 @@ 8 :> 1)

\* sum_item_counts over the ids 8, 9, 8 counts item 8 twice
C13_SumWitness ==
  /\ query.method = "sum_item_counts"
  /\ NonNegativeRewards
  /\ query.args.item_ids = <<8, 9, 8>>
  /\ query.args.level = 3
  /\ query.answer = 8

\* without the condition on the quantities: a tier that takes an item back
\* lowers the cumulative quantity
C13_MonotoneAnyQuantity ==
  query.method = "sum_item_counts" =>
    \A l \in LowerLevels :
      sum_item_counts(query.args.ability_id, l, query.args.item_ids) <= query.answer

\* every capacity of the request is zero or less, the weekly limit is
\* positive, and some profile has a positive sale value
NoPositiveCapacity ==
  /\ \A f \in DOMAIN request.capacities : RLe(request.capacities[f], RZero)
  /\ RGt(request.weekly_limit, RZero)
  /\ PositiveItems # {}

NonOptimalStatuses == {"Not Solved", "Infeasible", "Unbounded", "Undefined"}

\* C15: when the solver ran and its outcome is not Optimal, the call returns
\* the solver's status string with no items, total 0 and an empty
\* facility_usage
C15_NonOptimalOutcome ==
  (solver_runs = 1 /\ result.status # "Optimal") =>
    /\ result.status \in NonOptimalStatuses
    /\ result.items = <<>>
    /\ result.total_astralite = RZero
    /\ result.facility_usage = EmptyDict

\* the solver reported Infeasible for a request that names facilities: their
\* zeroed usage was cleared
C15_Witness ==
  /\ solver_runs = 1
  /\ result.status = "Infeasible"
  /\ DOMAIN request.capacities = Facilities
  /\ result.facility_usage = EmptyDict
  /\ result.items = <<>>

\* ------------------------------------------------------------------------
\* Properties of the data loader
\* ------------------------------------------------------------------------
\* the step is a call of fetch_json that sent a request to the session
Requested == Len(sent') = Len(sent) + 1 /\ SubSeq(sent', 1, Len(sent)) = sent

\* C16: over any sequence of fetch_json calls on one loader, a name once
\* fetched is never requested from the session again and every later call
\* returns its cached value; an unknown name ends in a lookup error without a
\* request; a retrieval that fails raises its error after one request and
\* leaves the cache as it was
C16_FetchOnce ==
  [][LET name == fetch'.name
     IN /\ \A n \in DOMAIN cache :
             /\ n \in DOMAIN cache' /\ cache'[n] = cache[n]
             /\ Requested => sent'[Len(sent')] # urls[n]
        /\ name \in DOMAIN cache =>
             /\ fetch'.outcome = "returned"
             /\ fetch'.value = cache[name]
             /\ fetch'.requests = 0
             /\ sent' = sent
        /\ name \notin DOMAIN urls =>
             /\ fetch'.outcome = "KeyError"
             /\ fetch'.requests = 0
             /\ sent' = sent
             /\ cache' = cache
        /\ fetch'.outcome \in TransportErrors =>
             /\ fetch'.requests = 1
             /\ Requested
             /\ sent'[Len(sent')] = urls[name]
             /\ cache' = cache
        /\ sent' = sent \/ Requested]_loader_vars

\* "en" failed once, was fetched by a second request, and the call after that
\* returned the cached document without a request
C16_Witness ==
  /\ urls = DATA_URLS
  /\ sent = <<DATA_URLS["en"], DATA_URLS["en"]>>
  /\ "en" \in DOMAIN cache
  /\ fetch = [name |-> "en", outcome |-> "returned", value |-> cache["en"],
              requests |-> 0]

\* an unknown name ended in KeyError after other names had been fetched
C16_UnknownName ==
  /\ fetch.name = "TbUnknown"
  /\ fetch.outcome = "KeyError"
  /\ cache # EmptyDict

\* the profiles of the request that the plan holds no item for
LeftOut ==
  {j \in 1..Len(request.profiles) :
     \A k \in 1..Len(result.items) : result.items[k].profile # request.profiles[j]}

\* C17: every item of a returned plan is a profile of the request with sale
\* value > 0 and a quantity above 1e-6; what is left out (no variable, or a
\* variable solved at or below 1e-6) counts neither in total_astralite nor in
\* facility_usage, which are those of the items alone
C17_ItemsAboveTolerance ==
  Returned =>
    /\ \A k \in 1..Len(result.items) :
         /\ \E j \in 1..Len(request.profiles) :
              request.profiles[j] = result.items[k].profile
         /\ RGt(result.items[k].profile.sale_value, RZero)
         /\ RGt(result.items[k].units, Tolerance)
    /\ result.total_astralite = EarnedTotal(result.items)
    /\ \A f \in DOMAIN result.facility_usage :
         result.facility_usage[f] = ReportedMinutes(result.items, f)

\* a plan with an item, from a request that also holds a profile without
\* positive sale value and a profile with positive sale value solved at 0
C17_Witness ==
  /\ result.status = "Optimal"
  /\ result.items # <<>>
  /\ \E j \in LeftOut : RLe(request.profiles[j].sale_value, RZero)
  /\ \E j \in LeftOut : RGt(request.profiles[j].sale_value, RZero)

\* the only variable is solved at 1/2000000 of a unit and left out: nothing
\* is earned
C17_BelowTolerance ==
  /\ result.status = "Optimal"
  /\ request.profiles = <<GemProfile>>
  /\ request.weekly_limit = R(1)
  /\ result.items = <<>>
  /\ result.total_astralite = RZero

\* the sum of the astralite fields of items
RECURSIVE ItemsAstralite(_)
ItemsAstralite(items) ==
  IF items = <<>> THEN RZero
  ELSE RAdd(Head(items).astralite, ItemsAstralite(Tail(items)))

\* the item's figures follow from its units and its profile
ItemRecomputed(item) ==
  /\ item.multiplier = (IF \E k \in 1..Len(request.bonus_item_ids) :
                             request.bonus_item_ids[k] = item.item_id
                        THEN <<6, 5>> ELSE R(1))
  /\ item.astralite = RMul(RMul(item.units, item.profile.sale_value), item.multiplier)
  /\ \A f \in Facilities :
       DictGet(item.facility_minutes, f, RZero)
         = RMul(DictGet(item.profile.facility_minutes, f, RZero), item.units)
  /\ DOMAIN item.facility_minutes \subseteq DOMAIN item.profile.facility_minutes

\* C18: in an Optimal result every item's astralite is units x sale value x
\* multiplier and its minutes at a facility are the profile's minutes per unit
\* x units; total_astralite is the sum of the items' astralite; facility_usage
\* holds, for every facility of capacities and every facility an item uses,
\* the sum of the items' minutes there, 0 when no item uses it
C18_AggregatesFromItems ==
  result.status = "Optimal" =>
    /\ \A k \in 1..Len(result.items) : ItemRecomputed(result.items[k])
    /\ result.total_astralite = ItemsAstralite(result.items)
    /\ DOMAIN request.capacities \subseteq DOMAIN result.facility_usage
    /\ \A f \in Facilities \cup DOMAIN result.facility_usage :
         DictGet(result.facility_usage, f, RZero) = ReportedMinutes(result.items, f)

\* two items share a facility, one of them with the bonus multiplier and a
\* quantity that is not a whole number, and a facility of capacities is unused
C18_Witness ==
  /\ result.status = "Optimal"
  /\ \E j, k \in 1..Len(result.items) :
       /\ j # k
       /\ (DOMAIN result.items[j].facility_minutes)
            \cap (DOMAIN result.items[k].facility_minutes) # {}
       /\ result.items[j].multiplier = <<6, 5>>
       /\ result.items[j].units[2] # 1
  /\ \E f \in DOMAIN request.capacities : result.facility_usage[f] = RZero

\* the position of an item's profile in the request
ProfileIndex(item) ==
  CHOOSE j \in 1..Len(request.profiles) : request.profiles[j] = item.profile

\* C19: the items of every result are in descending order of astralite: an
\* item never earns less than the item after it
C19_SortedDescending ==
  Returned =>
    \A k \in 1..(Len(result.items) - 1) :
      RLe(result.items[k + 1].astralite, result.items[k].astralite)

\* the greatest earner stands first although its profile came later in the
\* request
C19_Witness ==
  /\ result.status = "Optimal"
  /\ Len(result.items) >= 2
  /\ RGt(result.items[1].astralite, result.items[2].astralite)
  /\ ProfileIndex(result.items[1]) > ProfileIndex(result.items[2])

\* ------------------------------------------------------------------------
\* Properties of the request layer (POST /api/optimise)
\* ------------------------------------------------------------------------
\* the items of the plan of an answered request whose profile has no facility
\* minutes at all
UntimedItems ==
  {k \in 1..Len(result.items) : result.items[k].profile.facility_minutes = EmptyDict}

\* C20 as claimed: the plan of an answered request holds no item whose profile
\* has empty facility minutes, so no such item has a positive quantity or
\* earns astralite
C20_UntimedNeverPlanned ==
  response # None => UntimedItems = {}

\* the plant that no growth table lists, unlocked at Planting level 2, is in
\* the plan of an answered request with a positive quantity and earns astralite
C20_UntimedPlanned ==
  /\ response # None
  /\ \E k \in UntimedItems :
       /\ result.items[k].item_id = 6
       /\ result.items[k].profile.category = "plant"
       /\ result.items[k].profile.notes = <<NOTE_PLANT>>
       /\ RGt(result.items[k].units, RZero)
       /\ RGt(result.items[k].astralite, RZero)
       /\ \E j \in 1..Len(response.items) : response.items[j].item_id = 6

\* what the filters of the request layer do keep out: every item of the plan
\* is of a modelled category and unlocked at the clamped ability levels
C20_FiltersApplied ==
  response # None =>
    \A k \in 1..Len(result.items) :
      /\ result.items[k].profile.category \in MODELLED_CATEGORIES
      /\ result.items[k].item_id \in SeqToSet(response.unlocked_item_ids)

\* ------------------------------------------------------------------------
\* compute_profile on a calculator that has computed nothing yet
\* ------------------------------------------------------------------------
\* _compute_profile(item_id, stack) run to its return on the cache entries:
\* the profile it returns and the cache it leaves
RECURSIVE FreshCompute(_, _, _)
\* the for loop of _build_furniture_profile from frame.idx on
RECURSIVE FreshFurniture(_, _, _)
FreshFurniture(frame, in_progress, entries) ==
  IF frame.idx > Len(Materials(frame.item_id))
  THEN [frame |-> frame, entries |-> entries]
  ELSE LET requirement == Materials(frame.item_id)[frame.idx]
           component == FreshCompute(requirement.item_id, in_progress, entries)
       IN FreshFurniture(TakeComponent(frame, requirement, component.profile),
                         in_progress, component.entries)

FreshCompute(item_id, in_progress, entries) ==
  IF item_id \in DOMAIN entries
  THEN [profile |-> entries[item_id], entries |-> entries]
  ELSE IF item_id \in in_progress \/ item_id \notin DOMAIN sale_items
  THEN [profile |-> None, entries |-> entries]
  ELSE IF sale_items[item_id].category = "furniture"
  THEN LET built == FreshFurniture(NewFrame(item_id), StackAdd(in_progress, item_id),
                                   entries)
           profile == FrameProfile(built.frame, <<item_id, 0>>)
       IN [profile |-> profile, entries |-> CacheStore(built.entries, item_id, profile)]
  ELSE LET profile == BuildLeaf(sale_items[item_id], <<item_id, 0>>)
       IN [profile |-> profile, entries |-> CacheStore(entries, item_id, profile)]

\* what compute_profile(item_id) returns when it is the first call
FirstAsked(item_id) == FreshCompute(item_id, {}, EmptyDict).profile

\* two profiles with the same facility minutes and the same component
\* profiles: resolved or not, and with the same facility minutes
SameTiming(p, q) ==
  /\ p.facility_minutes = q.facility_minutes
  /\ Len(p.components) = Len(q.components)
  /\ \A k \in 1..Len(p.components) :
       LET a == p.components[k].profile
           b == q.components[k].profile
       IN IF a = None \/ b = None THEN a = None /\ b = None
          ELSE a.facility_minutes = b.facility_minutes

\* some furniture is reached from itself through the recipes
RECURSIVE Reaches(_, _, _)
Reaches(from, to, steps) ==
  /\ steps > 0
  /\ \E k \in 1..Len(Materials(from)) :
       \/ Materials(from)[k].item_id = to
       \/ Reaches(Materials(from)[k].item_id, to, steps - 1)
CyclicRecipes ==
  \E i \in DOMAIN furniture_recipes : Reaches(i, i, Cardinality(DOMAIN furniture_recipes))

\* C21 as claimed: whatever was computed before, the profile a calculator
\* holds for an item has the facility minutes and the component profiles of
\* the profile a calculator over the same data returns when it is asked for
\* that item first, for every recipe graph
C21_HistoryIndependent ==
  \A i \in DOMAIN profile_cache : SameTiming(profile_cache[i], FirstAsked(i))

\* the same for the recipe graphs without a cycle
C21_HistoryIndependentAcyclic ==
  ~CyclicRecipes => C21_HistoryIndependent

\* furniture 3 needs 4 and 4 needs 3: after compute_profile(3) the calculator
\* returns for 4 a profile without the minutes of 3, which a calculator asked
\* for 4 first includes
C21_OrderDependent ==
  /\ call.done
  /\ call.item_id = 4
  /\ 4 \in DOMAIN profile_cache
  /\ call.result = profile_cache[4]
  /\ \E k \in Unresolved(profile_cache[4]) : profile_cache[4].components[k].item_id = 3
  /\ Unresolved(FirstAsked(4)) = {}
  /\ profile_cache[4].facility_minutes # FirstAsked(4).facility_minutes

\* on a graph without a cycle a furniture profile was computed after one of
\* its materials had been asked for on its own
C21_AcyclicWitness ==
  /\ ~CyclicRecipes
  /\ call.done
  /\ call.item_id = 3
  /\ call.result # None
  /\ build_count[1] = 1
  /\ Resolved(call.result) # {}
  /\ SameTiming(call.result, FirstAsked(3))

====
